---- MODULE Spec2Model ----
(***************************************************************************)
(* State-machine model of the OpenClaw gateway core:                       *)
(*   - llm/budget.py   ProviderBudget / BudgetTracker                      *)
(*   - llm/router.py   LLMRouter (fallback chain, circuit breaker)         *)
(*   - messages/intent.py  classify                                        *)
(*   - app.py          create_app.dispatch                                 *)
(* Each subsystem has its own specification (SpecRouter, SpecBudget,       *)
(* SpecClassify, SpecDispatch) over the shared variables; Spec is the      *)
(* router specification.                                                   *)
(***************************************************************************)
EXTENDS Integers, Sequences, FiniteSets, TLC

VARIABLES
    clock,        \* time.monotonic(), in seconds
    today,        \* date.today(), as a day number
    ticks,        \* number of clock advances so far (bounds the run)
    started,      \* per task: number of route() calls begun so far (bounds the run)
    configured,   \* keys of LLMRouter.providers
    available,    \* providers whose is_available() is true
    health,       \* LLMRouter._health
    budgets,      \* BudgetTracker._budgets
    rt,           \* per task: the frame of its route() call
    third_at,     \* history: clock at which consecutive_failures last became the threshold
    budget_op,    \* history: the last BudgetTracker operation and what it observed
    summary_out,  \* the dict returned by the last BudgetTracker.summary()
    inbound,      \* the InboundMessage handed to classify
    intent_out,   \* the Intent classify returned for it ("none" before the call)
    registry,     \* SkillRegistry._skills
    metrics,      \* MetricsCollector.intent_counts
    dp,           \* per task: the frame of its dispatch() call
    tags,         \* the tag map handed to detect_faults
    faults_out,   \* what detect_faults did with it: the list returned, or that it raised
    wall,         \* time.time(), in seconds
    wticks,       \* number of advances of wall so far (bounds the run)
    history,      \* TelegramAdapter._history
    hseq,         \* per user: number of entries ever added (names the entries)
    pending,      \* per user: handlers awaiting dispatch for a message of that user
    since_clear,  \* history: per user, /clear ran and nothing was added since
    hist_op,      \* history: the last handler step and what its _get_history returned
    rl_max,       \* RateLimiter._max
    windows,      \* RateLimiter._windows
    rl_now,       \* time.time() as the rate limiter reads it, in seconds
    rl_ticks,     \* number of advances of rl_now so far (bounds the run)
    accepted,     \* history: per user, the time of every request ever accepted
    rl_n,         \* number of check() calls so far (bounds the run)
    rl_op,        \* history: the last check() call and what it returned
    sk,           \* the frame of the DiagnoseSkill/ChatSkill handle() call of task t1
    handled,      \* number of handle() calls started so far (bounds the run)
    send_cb,      \* whether skill_context._telegram_send is set
    photo,        \* the frame of the current PhotoSkill.handle call
    photos,       \* number of PhotoSkill.handle calls so far (names the calls)
    replies,      \* history: per call, its message and how handle() ended
    enrich,       \* per call: the _background_enrich task it created
    sent,         \* the notifications send_callback delivered
    allowed_users,\* config.telegram_allowed_users
    jarvis,       \* whether connectors holds "jarvis"
    executed,     \* the jarvis.execute calls made so far
    vision,       \* vision_data: what _ingest_photo read off the photo
    kb_matches,   \* what _augment_from_kb returned for it
    atom_data,    \* the dict _synthesize returned
    kb_writes,    \* the insert_atom / update_atom calls made on the knowledge base
    en_pc,        \* the stage enrich_from_photo has reached
    tg,           \* the frame of the current TelegramAdapter._send_long call
    kq,           \* the current knowledge-base query of a skill and its result
    wenrich,      \* the frame of the current WiringEnrichSkill.handle call
    hc,           \* the frame of the current aggregate_health call
    life,         \* the application's connectors and the frame of its shutdown handler
    kb_flags,     \* knowledge_atoms.needs_review, per atom_id
    wp,           \* a WiringProject: its terminals and its connections
    shell         \* the frame of the current ShellSkill.handle call

llmVars == <<clock, today, ticks, started, configured, available, health, budgets, rt,
             third_at, budget_op, summary_out>>

\* The variables of the gateway front end (classify, dispatch).
gatewayVars == <<inbound, intent_out, registry, metrics, dp>>

\* The variables of the fault detector.
faultVars == <<tags, faults_out>>

\* The variables of the Telegram adapter's conversation history.
historyVars == <<wall, wticks, history, hseq, pending, since_clear, hist_op>>

\* The variables of the rate limiter.
rateVars == <<rl_max, windows, rl_now, rl_ticks, accepted, rl_n, rl_op>>

\* The variables of the gateway's and the skills' helpers.
\* The variables of the DIAGNOSE and CHAT skills.
kbVars == <<sk, handled>>

\* The variables of the PHOTO skill and of its enrichment tasks.
photoVars == <<send_cb, photo, photos, replies, enrich, sent>>

\* The variables of the SHELL skill.
shellVars == <<allowed_users, jarvis, executed, shell>>

\* The variables of the KB enrichment pipeline.
enrichVars == <<vision, kb_matches, atom_data, kb_writes, en_pc>>

\* The variables of the remaining components.
\* The variables of the health endpoint, the lifecycle handlers, the
\* knowledge-base table and the wiring project.
lateVars == <<hc, life, kb_flags, wp>>

restVars == <<enrichVars, tg, kq, wenrich, lateVars>>

\* The variables of everything but those four.
earlyVars == <<llmVars, gatewayVars, faultVars, historyVars, rateVars, kbVars, photoVars,
               shellVars, enrichVars, tg, kq, wenrich>>

toolVars == <<rateVars, kbVars, photoVars, shellVars, restVars>>

skillVars == <<faultVars, historyVars, toolVars>>

vars == <<llmVars, gatewayVars, skillVars>>

\* The variables no step of the router changes.
routerFrame == <<today, budget_op, summary_out, gatewayVars, skillVars>>

(***************************************************************************)
(* Bounds of the model.                                                    *)
(***************************************************************************)
MaxTicks == 2          \* clock advances per behaviour
MaxDay == 2            \* last day number
MaxRequests == 3       \* cap on requests_today when record is driven on its own
MaxRoutes == 3         \* route() calls of task t1 per behaviour
MaxHandled == 2        \* dispatch() stops being called once this many requests are counted
MaxAdds == 22          \* history entries added for user u1 per behaviour
MaxWallTicks == 2      \* advances of the wall clock per behaviour
MaxPerHour == 2        \* largest max_per_hour a RateLimiter is built with
MaxChecks == 5         \* check() calls per behaviour
MaxRateTicks == 3      \* advances of the rate limiter's clock per behaviour
MaxSkillCalls == 2     \* DiagnoseSkill/ChatSkill handle() calls per behaviour
MaxAtoms == 2          \* atoms a knowledge-base search returns
MaxPhotos == 2         \* PhotoSkill.handle calls per behaviour
MaxShellCalls == 3     \* ShellSkill.handle calls per behaviour
MaxCandidates == 2     \* records a knowledge-base full-text search returns
MaxProjectOps == 3     \* add_connection and remove_connection calls per behaviour
MaxUpdates == 4        \* enrichment updates of existing atoms per behaviour

Tasks == {"t1", "t2"}  \* concurrent route() calls on the event loop
\* Task t1 makes up to MaxRoutes route() calls in a row; task t2 makes one, which
\* may be in flight across any of them.
RouteQuota(t) == IF t = "t1" THEN MaxRoutes ELSE 1
TimeSteps == {150}     \* seconds the clock may advance in one step (half a cooldown)
RecordAmounts == {0, 2} \* tokens passed to BudgetTracker.record on its own
TokenAmounts == {2} \* LLMResponse.tokens_used of a returned call

(***************************************************************************)
(* llm/router.py: constants, routing table, provider capabilities.         *)
(***************************************************************************)
CIRCUIT_BREAKER_THRESHOLD == 3
CIRCUIT_BREAKER_COOLDOWN == 300

NoProvider == "none"   \* prefer=None

ProviderNames == {"groq", "openrouter", "gemini", "openai", "deepseek", "nvidia", "anthropic"}

\* The intents route() is called with in this model, and their Route entries.
RouteIntents == {"status", "photo", "diagnose", "chat", "diagram", "work_order"}

\* DEFAULT_ROUTES, restricted to RouteIntents.
DEFAULT_ROUTES ==
    [i \in RouteIntents |->
        CASE i = "status" -> [primary |-> "groq", fallbacks |-> <<"openai">>]
          [] i = "photo"  -> [primary |-> "openrouter", fallbacks |-> <<"gemini", "openai">>]
          [] i = "diagnose" -> [primary |-> "openrouter",
                                fallbacks |-> <<"groq", "deepseek", "nvidia", "openai">>]
          [] i = "chat" -> [primary |-> "groq",
                            fallbacks |-> <<"deepseek", "openrouter", "openai">>]
          [] i = "diagram" -> [primary |-> "openrouter",
                               fallbacks |-> <<"groq", "deepseek", "anthropic">>]
          [] i = "work_order" -> [primary |-> "openrouter",
                                  fallbacks |-> <<"groq", "deepseek", "anthropic", "openai">>]]

\* Mutant of Candidates: the primary is put after the fallbacks.
Candidates_PrimaryLast(intent) ==
    DEFAULT_ROUTES[intent].fallbacks \o <<DEFAULT_ROUTES[intent].primary>>

\* candidates = [route.primary] + route.fallbacks
Candidates(intent) ==
    <<DEFAULT_ROUTES[intent].primary>> \o DEFAULT_ROUTES[intent].fallbacks

\* LLMProvider.supports_vision: default False, overridden to True by
\* OpenRouterProvider, GeminiProvider and AnthropicProvider; GroqProvider keeps
\* the default.
supports_vision(p) == p \in {"openrouter", "gemini", "anthropic"}

\* The providers whose complete() turns json_mode into a response_format of
\* json_object (Groq, OpenRouter, DeepSeek); Gemini, Anthropic and Nvidia take
\* the parameter and drop it. LLMProvider declares no capability method for it.
supports_json_mode(p) == p \in {"groq", "openrouter", "deepseek"}

\* provider.is_available()
is_available(p) == p \in available

\* ProviderHealth() defaults; present = FALSE stands for "no entry in _health".
ProviderHealth ==
    [present |-> FALSE, consecutive_failures |-> 0, last_failure |-> 0,
     circuit_open_until |-> 0]

(***************************************************************************)
(* llm/budget.py                                                           *)
(***************************************************************************)
\* ProviderBudget(daily_request_limit, daily_token_limit) as configure() builds it;
\* present = FALSE stands for "no entry in _budgets".
ProviderBudget(rl, tl, day) ==
    [present |-> TRUE, daily_request_limit |-> rl, daily_token_limit |-> tl,
     requests_today |-> 0, tokens_today |-> 0, last_reset |-> day]

NoBudget ==
    [present |-> FALSE, daily_request_limit |-> 0, daily_token_limit |-> 0,
     requests_today |-> 0, tokens_today |-> 0, last_reset |-> 0]

\* Mutant of maybe_reset: the rollover forgets to clear tokens_today.
maybe_reset_KeepsTokens(b, day) ==
    IF day > b.last_reset
    THEN [b EXCEPT !.requests_today = 0, !.last_reset = day]
    ELSE b

\* ProviderBudget._maybe_reset
maybe_reset(b, day) ==
    IF day > b.last_reset
    THEN [b EXCEPT !.requests_today = 0, !.tokens_today = 0, !.last_reset = day]
    ELSE b

\* The verdict of ProviderBudget.is_within_budget on already reset counters.
WithinLimits(b) ==
    /\ ~(b.daily_request_limit # 0 /\ b.requests_today >= b.daily_request_limit)
    /\ ~(b.daily_token_limit # 0 /\ b.tokens_today >= b.daily_token_limit)

\* ProviderBudget.is_within_budget: the verdict; its side effect is maybe_reset.
ProviderBudget_is_within_budget(b, day) == WithinLimits(maybe_reset(b, day))

\* ProviderBudget.record
ProviderBudget_record(b, tokens, day) ==
    LET r == maybe_reset(b, day)
    IN [r EXCEPT !.requests_today = r.requests_today + 1,
                 !.tokens_today = r.tokens_today + tokens]

\* BudgetTracker.is_within_budget: verdict for provider p under budgets bs.
is_within_budget(bs, p, day) ==
    IF ~bs[p].present THEN TRUE ELSE ProviderBudget_is_within_budget(bs[p], day)

\* The budgets after BudgetTracker.is_within_budget(p) (lazy reset).
AfterBudgetCheck(bs, p, day) ==
    IF ~bs[p].present THEN bs ELSE [bs EXCEPT ![p] = maybe_reset(bs[p], day)]

\* BudgetTracker.record
BudgetTracker_record(bs, p, tokens, day) ==
    IF ~bs[p].present THEN bs
    ELSE [bs EXCEPT ![p] = ProviderBudget_record(bs[p], tokens, day)]

(***************************************************************************)
(* llm/router.py: LLMRouter                                                *)
(***************************************************************************)
\* Mutant of AttemptBudgets: the budget is charged whether the call returned or raised.
AttemptBudgets_Always(bs, p, outcome, tokens, day) ==
    BudgetTracker_record(bs, p, tokens, day)

\* The try/except around a candidate's call: budget.record(provider_name,
\* response.tokens_used) runs in the try body after the await, so only when the
\* call returned; the except branch leaves the budgets alone.
AttemptBudgets(bs, p, outcome, tokens, day) ==
    IF outcome = "returned" THEN BudgetTracker_record(bs, p, tokens, day) ELSE bs

\* LLMRouter._record_success
record_success(h) ==
    IF h.present THEN [h EXCEPT !.consecutive_failures = 0] ELSE h

\* Mutant of record_failure: the circuit opens one failure late.
record_failure_LateOpen(h, now) ==
    LET n == h.consecutive_failures + 1
        h1 == [present |-> TRUE, consecutive_failures |-> n, last_failure |-> now,
               circuit_open_until |-> h.circuit_open_until]
    IN IF n > CIRCUIT_BREAKER_THRESHOLD
       THEN [h1 EXCEPT !.circuit_open_until = now + CIRCUIT_BREAKER_COOLDOWN]
       ELSE h1

\* LLMRouter._record_failure; now is time.monotonic() read inside it.
record_failure(h, now) ==
    LET n == h.consecutive_failures + 1
        h1 == [present |-> TRUE, consecutive_failures |-> n, last_failure |-> now,
               circuit_open_until |-> h.circuit_open_until]
    IN IF n >= CIRCUIT_BREAKER_THRESHOLD
       THEN [h1 EXCEPT !.circuit_open_until = now + CIRCUIT_BREAKER_COOLDOWN]
       ELSE h1

\* The circuit-breaker test of the candidate loop: health and now < circuit_open_until.
CircuitOpen(h, now) == h.present /\ now < h.circuit_open_until

\* The guard chain of the prefer branch; images are not looked at there.
PreferAdmitted(prefer, now, images) ==
    /\ prefer # NoProvider
    /\ prefer \in configured
    /\ is_available(prefer)
    /\ is_within_budget(budgets, prefer, today)
    /\ ~CircuitOpen(health[prefer], now)

\* Why the candidate loop skips candidate p, or "called" when it calls it.
\* The tests come in the order of the loop body; bs are the budgets as reset so far.
CandidateVerdict(p, now, images, hs, bs) ==
    CASE p \notin configured -> "not_configured"
      [] p \in configured /\ ~is_available(p) -> "unavailable"
      [] p \in configured /\ is_available(p) /\ ~is_within_budget(bs, p, today) -> "over_budget"
      [] p \in configured /\ is_available(p) /\ is_within_budget(bs, p, today)
            /\ images /\ ~supports_vision(p) -> "no_vision"
      [] p \in configured /\ is_available(p) /\ is_within_budget(bs, p, today)
            /\ ~(images /\ ~supports_vision(p)) /\ CircuitOpen(hs[p], now) -> "circuit_open"
      [] OTHER -> "called"

\* The budgets after the loop body ran its tests on candidate p: is_within_budget
\* is reached, and resets lazily, only for a configured and available provider.
BudgetsAfterTests(p, bs) ==
    IF p \in configured /\ is_available(p) THEN AfterBudgetCheck(bs, p, today) ELSE bs

\* The candidate loop from index i up to the next provider call (or exhaustion):
\* no await lies between the tests and the call, so the scan is one step.
\* Returns the index reached, the budgets and the log of verdicts.
RECURSIVE Scan(_, _, _, _, _, _, _)
Scan(cands, i, now, images, hs, bs, log) ==
    IF i > Len(cands) THEN [idx |-> i, budgets |-> bs, log |-> log]
    ELSE LET p == cands[i]
             v == CandidateVerdict(p, now, images, hs, bs)
             b1 == BudgetsAfterTests(p, bs)
             l1 == Append(log, [prov |-> p, verdict |-> v, via |-> "route"])
         IN IF v = "called" THEN [idx |-> i, budgets |-> b1, log |-> l1]
            ELSE Scan(cands, i + 1, now, images, hs, b1, l1)

\* A task's frame before its first route() call. A frame at "returned" or
\* "raised" is kept, for observation, until the task's next route() call.
IdleFrame ==
    [pc |-> "idle", now |-> 0, intent |-> "status", images |-> FALSE,
     prefer |-> NoProvider, json_mode |-> FALSE, idx |-> 0, log |-> <<>>,
     served |-> NoProvider]

\* The frame after the loop was scanned from index i: awaiting a call, or
\* RuntimeError("All LLM providers exhausted") raised.
AfterScan(f, i, hs, bs) ==
    LET cands == Candidates(f.intent)
        r == Scan(cands, i, f.now, f.images, hs, bs, f.log)
    IN [frame |-> [f EXCEPT !.pc = IF r.idx > Len(cands) THEN "raised" ELSE "call",
                            !.idx = r.idx, !.log = r.log],
        budgets |-> r.budgets]

\* The provider a task's call is in flight on.
Callee(f) ==
    CASE f.pc = "prefer_call" -> f.prefer
      [] f.pc = "call" -> Candidates(f.intent)[f.idx]
      [] OTHER -> NoProvider

\* The log with the verdict of its last entry replaced.
SetLast(log, v) == [log EXCEPT ![Len(log)].verdict = v]

\* history: third_at after a failure of p left its health at h.
ThirdAtAfter(p, h, now) ==
    IF h.consecutive_failures = CIRCUIT_BREAKER_THRESHOLD
    THEN [third_at EXCEPT ![p] = now] ELSE third_at

\* route() from its entry to its first await (or to its raise).
RouteStart(t, intent, images, prefer, json_mode) ==
    /\ rt[t].pc \in {"idle", "returned", "raised"}
    /\ started[t] < RouteQuota(t)
    /\ started' = [started EXCEPT ![t] = started[t] + 1]
    /\ LET f0 == [IdleFrame EXCEPT !.now = clock, !.intent = intent, !.images = images,
                                   !.prefer = prefer, !.json_mode = json_mode]
           b0 == IF prefer # NoProvider /\ prefer \in configured /\ is_available(prefer)
                 THEN AfterBudgetCheck(budgets, prefer, today) ELSE budgets
       IN IF PreferAdmitted(prefer, clock, images)
          THEN /\ rt' = [rt EXCEPT ![t] =
                    [f0 EXCEPT !.pc = "prefer_call",
                               !.log = <<[prov |-> prefer, verdict |-> "called",
                                          via |-> "prefer"]>>]]
               /\ budgets' = b0
          ELSE LET r == AfterScan(f0, 1, health, b0)
               IN /\ rt' = [rt EXCEPT ![t] = r.frame]
                  /\ budgets' = r.budgets
    /\ UNCHANGED <<clock, ticks, configured, available, health, third_at, routerFrame>>

\* The preferred provider's call returns: _record_success, return response.
PreferReturn(t) ==
    /\ rt[t].pc = "prefer_call"
    /\ LET p == rt[t].prefer
       IN /\ health' = [health EXCEPT ![p] = record_success(health[p])]
          /\ rt' = [rt EXCEPT ![t].pc = "returned", ![t].served = p,
                              ![t].log = SetLast(rt[t].log, "ok")]
    /\ UNCHANGED <<clock, ticks, started, configured,
                   available, budgets, third_at, routerFrame>>

\* The preferred provider's call raises: _record_failure, then the candidate loop.
PreferRaise(t) ==
    /\ rt[t].pc = "prefer_call"
    /\ LET p == rt[t].prefer
           h == record_failure(health[p], clock)
           hs == [health EXCEPT ![p] = h]
           f1 == [rt[t] EXCEPT !.log = SetLast(rt[t].log, "failed")]
           r == AfterScan(f1, 1, hs, budgets)
       IN /\ health' = hs
          /\ third_at' = ThirdAtAfter(p, h, clock)
          /\ rt' = [rt EXCEPT ![t] = r.frame]
          /\ budgets' = r.budgets
    /\ UNCHANGED <<clock, ticks, started, configured, available, routerFrame>>

\* A candidate's call returns: budget.record, _record_success, return response.
CallReturn(t, tokens) ==
    /\ rt[t].pc = "call"
    /\ LET p == Callee(rt[t])
       IN /\ budgets' = AttemptBudgets(budgets, p, "returned", tokens, today)
          /\ health' = [health EXCEPT ![p] = record_success(health[p])]
          /\ rt' = [rt EXCEPT ![t].pc = "returned", ![t].served = p,
                              ![t].log = SetLast(rt[t].log, "ok")]
    /\ UNCHANGED <<clock, ticks, started,
                   configured, available, third_at, routerFrame>>

\* A candidate's call raises: _record_failure, continue with the next candidate.
CallRaise(t) ==
    /\ rt[t].pc = "call"
    /\ LET p == Callee(rt[t])
           h == record_failure(health[p], clock)
           hs == [health EXCEPT ![p] = h]
           f1 == [rt[t] EXCEPT !.log = SetLast(rt[t].log, "failed")]
           r == AfterScan(f1, rt[t].idx + 1, hs,
                          AttemptBudgets(budgets, p, "raised", 0, today))
       IN /\ health' = hs
          /\ third_at' = ThirdAtAfter(p, h, clock)
          /\ rt' = [rt EXCEPT ![t] = r.frame]
          /\ budgets' = r.budgets
    /\ UNCHANGED <<clock, ticks, started, configured, available, routerFrame>>

\* Mutant of Tick: the passing of time brings the counter of a provider whose
\* cooldown has run out back to zero.
Tick_ResetsExpired(d) ==
    /\ ticks < MaxTicks
    /\ clock' = clock + d
    /\ ticks' = ticks + 1
    /\ health' = [p \in ProviderNames |->
                    IF health[p].present /\ health[p].circuit_open_until <= clock + d
                    THEN [health[p] EXCEPT !.consecutive_failures = 0] ELSE health[p]]
    /\ UNCHANGED <<started, configured, available,
                   budgets, rt, third_at, routerFrame>>

\* Time passes.
Tick(d) ==
    /\ ticks < MaxTicks
    /\ clock' = clock + d
    /\ ticks' = ticks + 1
    /\ UNCHANGED <<started, configured, available, health,
                   budgets, rt, third_at, routerFrame>>

(***************************************************************************)
(* Gateway data: types.py, messages/models.py, skills/registry.py.         *)
(***************************************************************************)
\* class Channel
Channel == {"telegram", "whatsapp", "http_api", "websocket"}

\* class Intent
Intent == {"diagnose", "status", "photo", "work_order", "chat", "admin", "help",
           "search", "shell", "diagram", "gist", "project", "wiring_reconstruct",
           "kb_enrich", "unknown"}

\* class InboundMessage: text is the sequence of whitespace-delimited tokens of
\* the string, attachments the sequence of Attachment.type values.
InboundMessage(ch, uid, text, atts, intent) ==
    [channel |-> ch, user_id |-> uid, text |-> text, attachments |-> atts,
     intent |-> intent]

\* class OutboundMessage
OutboundMessage(ch, uid, text) == [channel |-> ch, user_id |-> uid, text |-> text]

NoSkill == "none"      \* dict.get() returning None

\* SkillRegistry.register_builtins: _skills after the nine registrations.
register_builtins ==
    [i \in Intent |->
        CASE i = "diagnose" -> "diagnose"
          [] i = "status" -> "status"
          [] i = "photo" -> "photo"
          [] i = "work_order" -> "work_order"
          [] i \in {"admin", "help"} -> "admin"
          [] i = "search" -> "search"
          [] i = "shell" -> "shell"
          [] i = "diagram" -> "diagram"
          [] i \in {"chat", "unknown"} -> "chat"
          [] OTHER -> NoSkill]

\* The frame of a dispatch() call that has not started.
IdleDispatch ==
    [pc |-> "idle", msg |-> InboundMessage("telegram", "u1", <<>>, <<>>, "unknown"),
     received |-> InboundMessage("telegram", "u1", <<>>, <<>>, "unknown"),
     skill |-> NoSkill, path |-> "none", out |-> OutboundMessage("telegram", "u1", "none")]

\* MetricsCollector(): request_count and intent_counts as constructed.
NoMetrics == [request_count |-> 0, intent_counts |-> [i \in Intent |-> 0]]

\* The front end before any message has arrived.
GatewayIdle ==
    /\ inbound = InboundMessage("telegram", "u1", <<>>, <<>>, "unknown")
    /\ intent_out = "none"
    /\ registry = register_builtins
    /\ metrics = NoMetrics
    /\ dp = [t \in Tasks |-> IdleDispatch]

(***************************************************************************)
(* Skill-side data before anything has run.                                *)
(***************************************************************************)
\* The keys detect_faults reads that hold a flag, and those that hold a number.
FlagTags == {"motor_running", "conveyor_running", "sensor_1", "sensor_2", "fault_alarm",
             "e_stop"}
NumberTags == {"motor_speed", "motor_current", "temperature", "pressure",
               "conveyor_speed", "error_code"}

\* Tag values are numbers; two values outside the readings stand for a key that
\* is not in the tag map (tags.get(key, 0) gives 0) and for a key that is there
\* with a JSON null (tags.get(key, 0) gives None).
Absent == 0 - 1
Null == 0 - 2

\* The empty tag map.
NoTags == [k \in FlagTags \cup NumberTags |-> Absent]

\* detect_faults has not been called.
NoFaults == [status |-> "none", faults |-> <<>>, fired |-> {}]

FaultsIdle == tags = NoTags /\ faults_out = NoFaults

Users == {"u1", "u2"}  \* Telegram user ids

\* No handler step has run yet.
NoHistOp ==
    [op |-> "none", user |-> "u1", now |-> 0, before |-> <<>>, returned |-> <<>>,
     injected |-> [has_history |-> FALSE, history |-> <<>>], was_cleared |-> FALSE]

\* TelegramAdapter.__init__: _history = defaultdict(list).
HistoryIdle ==
    /\ wall = 0
    /\ wticks = 0
    /\ history = [u \in Users |-> <<>>]
    /\ hseq = [u \in Users |-> 0]
    /\ pending = [u \in Users |-> 0]
    /\ since_clear = [u \in Users |-> FALSE]
    /\ hist_op = NoHistOp

DEFAULT_RATE_LIMIT == 60   \* Config.telegram_rate_limit_per_hour
RATE_WINDOW == 3600        \* the literal of RateLimiter.check

\* No check() has run yet.
NoRateOp == [op |-> "none", user |-> "u1", now |-> 0, allowed |-> FALSE, raised |-> FALSE,
             retry |-> 0, before |-> <<>>, seen |-> <<>>]

\* RateLimiter.__init__(max_per_hour).
RateIdle(max) ==
    /\ rl_max = max
    /\ windows = [u \in Users |-> <<>>]
    /\ rl_now = 0
    /\ rl_ticks = 0
    /\ accepted = [u \in Users |-> <<>>]
    /\ rl_n = 0
    /\ rl_op = NoRateOp

\* The skill's frame before its first handle() call. A frame at "replied" or
\* "raised" is kept, for observation, until the next call.
IdleSkill ==
    [pc |-> "idle", skill |-> "chat", path |-> "none", hit |-> FALSE, base |-> 0,
     reply |-> "none"]

KbIdle == sk = IdleSkill /\ handled = 0

\* The PhotoSkill frame before the first call.
IdlePhoto ==
    [pc |-> "idle", channel |-> "telegram", user_id |-> "u1", image |-> FALSE]

\* A call not made yet.
NoReply == [end |-> "none", channel |-> "none", user_id |-> ""]

\* No enrichment task.
NoTask ==
    [state |-> "none", chat_id |-> "", callback |-> FALSE, tmp |-> "none",
     notify |-> [channel |-> "none", user_id |-> "", text |-> ""]]

\* Nothing handled by PhotoSkill yet; cb tells whether the Telegram adapter
\* started and wired its send into the skill context.
PhotoIdle(cb) ==
    /\ send_cb = cb
    /\ photo = IdlePhoto
    /\ photos = 0
    /\ replies = [i \in 1..MaxPhotos |-> NoReply]
    /\ enrich = [i \in 1..MaxPhotos |-> NoTask]
    /\ sent = {}

\* The ShellSkill frame before the first call.
IdleShell ==
    [pc |-> "idle", n |-> 0, channel |-> "telegram", user_id |-> "", text |-> "",
     host |-> "none", reply |-> "none"]

\* Nothing handled by ShellSkill yet, under allow-list al and with or
\* without a Jarvis connector.
ShellIdle(al, jv) ==
    /\ allowed_users = al
    /\ jarvis = jv
    /\ executed = <<>>
    /\ shell = IdleShell

NoAtomId == 0          \* None where an atom id is expected

\* The dict _synthesize builds, before it has run.
NoAtom ==
    [existing_atom_id |-> NoAtomId, conflict |-> FALSE, vendor |-> "", part_number |-> "",
     wiring_model |-> "", needs_review |-> FALSE]

\* enrich_from_photo not yet called.
EnrichIdle ==
    /\ vision = [vendor |-> "", part_number |-> "", wiring_diagram |-> ""]
    /\ kb_matches = <<>>
    /\ atom_data = NoAtom
    /\ kb_writes = <<>>
    /\ en_pc = "idle"

\* A text as its runs of characters: n line feeds (nl) or n other characters;
\* neighbouring runs differ in kind. The empty sequence is the empty string.
EmptyText == <<>>

\* _send_long not yet called.
SendIdle == tg = [pc |-> "idle", text |-> EmptyText, chunks |-> <<>>, sent |-> <<>>]

\* No knowledge-base query made yet.
QueryIdle ==
    kq = [pc |-> "idle", skill |-> "chat", fault |-> "OK", atoms |-> <<>>, hit |-> FALSE,
          parts |-> {}]

\* WiringEnrichSkill.handle not yet called.
WiringIdle == wenrich = [pc |-> "idle", tmp |-> "none", reply |-> "none"]

\* aggregate_health not yet called.
HealthIdle ==
    hc = [pc |-> "idle", connectors |-> <<>>, results |-> <<>>, all_healthy |-> TRUE,
          status |-> "none"]

\* The application running without connectors or Telegram adapter.
LifeIdle ==
    life = [pc |-> "created", telegram |-> FALSE, adapter |-> FALSE, connectors |-> <<>>,
            connected |-> {}, disconnected |-> {}]

\* No atom of the knowledge base awaits review.
FlagsIdle == kb_flags = [rows |-> <<>>, n |-> 0]

\* WiringProject(): no components, no connections.
ProjectIdle == wp = [terminals |-> <<>>, connections |-> <<>>, n |-> 0]

LateIdle == HealthIdle /\ LifeIdle /\ FlagsIdle /\ ProjectIdle

\* The remaining components at their initial state.
RestIdle == EnrichIdle /\ SendIdle /\ QueryIdle /\ WiringIdle /\ LateIdle

\* create_app: RateLimiter(config.telegram_rate_limit_per_hour); the default
\* configuration has no allowed users and no Jarvis hosts.
ToolsIdle ==
    /\ RateIdle(DEFAULT_RATE_LIMIT)
    /\ KbIdle
    /\ PhotoIdle(FALSE)
    /\ ShellIdle({}, FALSE)
    /\ RestIdle

\* Every skill-side variable at its initial value.
SkillsIdle == FaultsIdle /\ HistoryIdle /\ ToolsIdle

\* The last BudgetTracker operation observed; "none" before the first.
NoBudgetOp ==
    [op |-> "none", prov |-> NoProvider, tokens |-> 0, stale |-> {}, verdict |-> TRUE,
     prev_requests |-> 0, day |-> 0]

NoSummary == [p \in ProviderNames |-> [requests_today |-> 0, tokens_today |-> 0,
                                       daily_request_limit |-> 0, within_budget |-> TRUE]]

\* create_app: budget.configure("openrouter", daily_request_limit=..., daily_token_limit=0).
InitBudgets(day) ==
    [p \in ProviderNames |->
        CASE p = "openrouter" -> ProviderBudget(2, 0, day)
          [] OTHER -> NoBudget]

\* The route() calls of the model: intent, whether images are passed, prefer.
\* Task t1 issues the calls with a preferred provider and the calls on the
\* text-only provider; task t2, the concurrent caller, a plain photo call.
Requests(t) ==
    IF t = "t1"
    THEN {[intent |-> "photo", images |-> TRUE, prefer |-> "openrouter"],
          [intent |-> "photo", images |-> TRUE, prefer |-> "groq"],
          [intent |-> "status", images |-> TRUE, prefer |-> NoProvider],
          [intent |-> "status", images |-> FALSE, prefer |-> NoProvider]}
    ELSE {[intent |-> "photo", images |-> TRUE, prefer |-> NoProvider]}

\* create_app up to the router: providers, health and budgets as constructed.
LlmIdle(bs) ==
    /\ clock = 0
    /\ today = 0
    /\ ticks = 0
    /\ started = [t \in Tasks |-> 0]
    /\ configured = {"groq", "openrouter", "gemini"}
    /\ available = configured
    /\ health = [p \in ProviderNames |-> ProviderHealth]
    /\ budgets = bs
    /\ rt = [t \in Tasks |-> IdleFrame]
    /\ third_at = [p \in ProviderNames |-> -1]
    /\ budget_op = NoBudgetOp
    /\ summary_out = NoSummary

InitRouter == LlmIdle(InitBudgets(0)) /\ GatewayIdle /\ SkillsIdle

NextRouter ==
    \/ \E t \in Tasks : \E r \in Requests(t) : RouteStart(t, r.intent, r.images, r.prefer, FALSE)
    \/ \E t \in Tasks : PreferReturn(t)
    \/ \E t \in Tasks : PreferRaise(t)
    \/ \E t \in Tasks, n \in TokenAmounts : CallReturn(t, n)
    \/ \E t \in Tasks : CallRaise(t)
    \/ \E d \in TimeSteps : Tick(d)

SpecRouter == InitRouter /\ [][NextRouter]_vars

(***************************************************************************)
(* Router claims.                                                          *)
(***************************************************************************)
\* A step in which task t's route() starts a provider call.
StartsCall(t) ==
    /\ rt'[t].pc \in {"call", "prefer_call"}
    /\ rt'[t] # rt[t]

\* A step in which the provider call task t awaits returns.
CallSucceeds(t) ==
    /\ rt[t].pc \in {"call", "prefer_call"}
    /\ rt'[t].pc = "returned"

\* A step in which the provider call task t awaits raises.
CallFails(t) ==
    /\ rt[t].pc \in {"call", "prefer_call"}
    /\ rt'[t] # rt[t]
    /\ rt'[t].pc # "returned"

\* The route of frame f skipped candidate p because its circuit was open.
CircuitSkipped(f, p) ==
    \E k \in DOMAIN f.log : f.log[k].prov = p /\ f.log[k].verdict = "circuit_open"

\* The route of frame f called p (as prefer or as a candidate).
CalledIn(f, p) ==
    \E k \in DOMAIN f.log :
        f.log[k].prov = p /\ f.log[k].verdict \in {"called", "ok", "failed"}

\* p's third consecutive failure was recorded at t = ta[p], and t <= now < t + 300.
InCooldownWindow(ta, p, now) ==
    /\ ta[p] >= 0
    /\ now >= ta[p]
    /\ now < ta[p] + CIRCUIT_BREAKER_COOLDOWN

\* C1, first half: a route() call that starts in [t, t+300) after p's third
\* consecutive failure was recorded at t never starts a call on p.
C1_SkipsDuringCooldown ==
    \A t \in Tasks :
        StartsCall(t) => ~InCooldownWindow(third_at, Callee(rt'[t]), rt'[t].now)

\* C1 as stated, second half: after p's third consecutive failure was recorded at
\* t, a route() call that starts at or after t+300 and reaches p in its candidate
\* list while p is configured, available, within budget and capable calls p, that
\* is, does not skip p for an open circuit.
C1_Original ==
    \A t \in Tasks, p \in ProviderNames :
        (third_at[p] >= 0 /\ rt[t].now >= third_at[p] + CIRCUIT_BREAKER_COOLDOWN
            /\ ~CalledIn(rt[t], p))
        => ~CircuitSkipped(rt[t], p)

\* C1 amended, second half: the same, provided no failure of p was recorded
\* later than t.
C1_AdmitsAfterCooldown ==
    \A t \in Tasks, p \in ProviderNames :
        (third_at[p] >= 0 /\ rt[t].now >= third_at[p] + CIRCUIT_BREAKER_COOLDOWN
            /\ health[p].last_failure <= third_at[p])
        => ~CircuitSkipped(rt[t], p)

\* C1 amended: after p's third consecutive failure, recorded at t, every route()
\* call that starts in [t, t+300) skips p without calling it, and a route() call
\* that starts at or after t+300 does not skip p for an open circuit, provided no
\* later failure of p was recorded.
C1_CircuitCooldown ==
    [][C1_SkipsDuringCooldown]_vars /\ [](C1_AdmitsAfterCooldown)

\* C1 witness: one route() call that started inside the cooldown window skipped
\* p, and a call that started at t+300 or later is calling p.
C1_Witness ==
    \E p \in ProviderNames, t \in Tasks, u \in Tasks :
        /\ third_at[p] >= 0
        /\ health[p].last_failure <= third_at[p]
        /\ InCooldownWindow(third_at, p, rt[u].now) /\ CircuitSkipped(rt[u], p)
        /\ rt[t].now >= third_at[p] + CIRCUIT_BREAKER_COOLDOWN
        /\ rt[t].pc \in {"call", "prefer_call"} /\ Callee(rt[t]) = p

\* C2: a successful call to p resets p's consecutive-failure counter to zero and
\* closes p's circuit at once: right after the success is recorded a new route()
\* call (which reads the clock then) does not find p's circuit open.
C2_SuccessClosesCircuit ==
    [][\A t \in Tasks :
          CallSucceeds(t) =>
              /\ health'[Callee(rt[t])].consecutive_failures = 0
              /\ ~CircuitOpen(health'[Callee(rt[t])], clock')]_vars

\* C3: budget counters move only in the step in which a candidate's call
\* returns, by one request for the provider that returned, once per route();
\* a call that raises increases no budget counter.
C3_RecordOnlyOnSuccess ==
    [][/\ \A p \in ProviderNames :
            /\ budgets'[p].requests_today <= budgets[p].requests_today + 1
            /\ (\/ budgets'[p].requests_today > budgets[p].requests_today
                \/ budgets'[p].tokens_today > budgets[p].tokens_today)
               => \E t \in Tasks :
                     /\ CallSucceeds(t)
                     /\ Callee(rt[t]) = p
                     /\ rt'[t].served = p
                     /\ budgets'[p].requests_today = budgets[p].requests_today + 1
       /\ \A t \in Tasks :
            CallFails(t) =>
                \A p \in ProviderNames :
                    /\ budgets'[p].requests_today <= budgets[p].requests_today
                    /\ budgets'[p].tokens_today <= budgets[p].tokens_today]_vars

\* C3 witness: a route() whose first attempt raised returned from a budgeted
\* provider, whose budget holds the request.
C3_Witness ==
    \E t \in Tasks :
        /\ rt[t].pc = "returned"
        /\ budgets[rt[t].served].present
        /\ budgets[rt[t].served].requests_today >= 1
        /\ \E k \in DOMAIN rt[t].log : rt[t].log[k].verdict = "failed"

\* The entries of a route's log written by the candidate loop.
RouteLog(f) == SelectSeq(f.log, LAMBDA e : e.via = "route")

\* The candidate order the routing table prescribes: [primary] + fallbacks.
TableOrder(intent) ==
    <<DEFAULT_ROUTES[intent].primary>> \o DEFAULT_ROUTES[intent].fallbacks

\* C4: within one route() call the candidates are visited strictly in the order
\* [primary] + fallbacks; a candidate is called only after every earlier one was
\* skipped or called and failed; the only other provider called is prefer.
C4_FallbackOrder ==
    \A t \in Tasks :
        LET f == rt[t]
            L == RouteLog(f)
        IN /\ Len(L) <= Len(TableOrder(f.intent))
           /\ \A k \in DOMAIN L :
                /\ L[k].prov = TableOrder(f.intent)[k]
                /\ k < Len(L) => L[k].verdict \notin {"called", "ok"}
           /\ \A k \in DOMAIN f.log :
                f.log[k].via = "prefer" => (k = 1 /\ f.log[k].prov = f.prefer)
           /\ f.pc = "call" =>
                (Len(L) > 0 /\ Callee(f) = L[Len(L)].prov /\ L[Len(L)].verdict = "called")

\* C4 witness: the first fallback is being called after the primary was called
\* and failed.
C4_Witness ==
    \E t \in Tasks :
        /\ rt[t].pc = "call"
        /\ rt[t].idx = 2
        /\ RouteLog(rt[t])[1].verdict = "failed"
        /\ Callee(rt[t]) = DEFAULT_ROUTES[rt[t].intent].fallbacks[1]

\* A provider is usable for a call with the given images at time now under
\* health hs and budgets bs (the data model's invariant of ProviderHealth).
Usable(p, images, hs, bs, now) ==
    /\ p \in configured
    /\ is_available(p)
    /\ is_within_budget(bs, p, today)
    /\ ~(hs[p].present /\ now < hs[p].circuit_open_until)
    /\ images => supports_vision(p)

\* C5: the router never starts a call on a provider that, when the call starts,
\* is not configured, unavailable, over budget, has an open circuit or, for a
\* call with images, lacks vision support; for candidates and for prefer.
C5_CallsOnlyUsable ==
    [][\A t \in Tasks :
          StartsCall(t) =>
              Usable(Callee(rt'[t]), rt'[t].images, health', budgets', clock')]_vars

(***************************************************************************)
(* BudgetTracker on its own: the operations of llm/budget.py across days.  *)
(***************************************************************************)
budgetFrame == <<clock, ticks, started, configured, available, health, rt, third_at,
                 gatewayVars, skillVars>>

\* The providers whose budget has not been reset since the date advanced.
Stale(bs, day) == {p \in ProviderNames : bs[p].present /\ day > bs[p].last_reset}

\* BudgetTracker.summary: the dict it returns. Each entry reads requests_today
\* and tokens_today before within_budget is computed, and only is_within_budget
\* resets: a dict display evaluates its values left to right.
summary(bs, day) ==
    [p \in ProviderNames |->
        [requests_today |-> bs[p].requests_today,
         tokens_today |-> bs[p].tokens_today,
         daily_request_limit |-> bs[p].daily_request_limit,
         within_budget |-> is_within_budget(bs, p, day)]]

\* The budgets after BudgetTracker.summary: is_within_budget ran on every entry.
AfterSummary(bs, day) ==
    [p \in ProviderNames |-> IF bs[p].present THEN maybe_reset(bs[p], day) ELSE bs[p]]

\* BudgetTracker.is_within_budget(p)
BudgetCheck(p) ==
    /\ budgets' = AfterBudgetCheck(budgets, p, today)
    /\ budget_op' = [op |-> "check", prov |-> p, tokens |-> 0,
                     stale |-> Stale(budgets, today),
                     verdict |-> is_within_budget(budgets, p, today),
                     prev_requests |-> budgets[p].requests_today, day |-> today]
    /\ summary_out' = NoSummary
    /\ UNCHANGED <<today, budgetFrame>>

\* BudgetTracker.record(p, n)
BudgetRecord(p, n) ==
    /\ budgets[p].requests_today < MaxRequests
    /\ budgets' = BudgetTracker_record(budgets, p, n, today)
    /\ budget_op' = [op |-> "record", prov |-> p, tokens |-> n,
                     stale |-> Stale(budgets, today), verdict |-> TRUE,
                     prev_requests |-> budgets[p].requests_today, day |-> today]
    /\ summary_out' = NoSummary
    /\ UNCHANGED <<today, budgetFrame>>

\* BudgetTracker.summary()
BudgetSummary ==
    /\ summary_out' = summary(budgets, today)
    /\ budgets' = AfterSummary(budgets, today)
    /\ budget_op' = [op |-> "summary", prov |-> NoProvider, tokens |-> 0,
                     stale |-> Stale(budgets, today), verdict |-> TRUE,
                     prev_requests |-> 0, day |-> today]
    /\ UNCHANGED <<today, budgetFrame>>

\* Midnight passes: date.today() advances.
NewDay ==
    /\ today < MaxDay
    /\ today' = today + 1
    /\ UNCHANGED <<budgets, budget_op, summary_out, budgetFrame>>

\* create_app: budget.configure for groq (requests) and openrouter (requests, tokens).
InitBudget ==
    /\ \E rl \in {1, 2}, tl \in {0, 3} :
          LlmIdle([p \in ProviderNames |->
                      CASE p = "groq" -> ProviderBudget(rl, 0, 0)
                        [] p = "openrouter" -> ProviderBudget(2, tl, 0)
                        [] OTHER -> NoBudget])
    /\ GatewayIdle
    /\ SkillsIdle

NextBudget ==
    \/ \E p \in configured : BudgetCheck(p)
    \/ \E p \in configured, n \in RecordAmounts : BudgetRecord(p, n)
    \/ BudgetSummary
    \/ NewDay

SpecBudget == InitBudget /\ [][NextBudget]_vars

\* C8: once the date has advanced past a provider's last_reset, the first
\* is_within_budget or record for it works on counters reset to zero: the check
\* answers "within budget" whatever the previous day's usage was, and the first
\* record of the new day leaves requests_today = 1 and tokens_today = n.
C8_LazyReset ==
    LET p == budget_op.prov
    IN (budget_op.op \in {"check", "record"} /\ p \in budget_op.stale) =>
          /\ budgets[p].last_reset = budget_op.day
          /\ budget_op.op = "check" =>
                /\ budget_op.verdict = TRUE
                /\ budgets[p].requests_today = 0
                /\ budgets[p].tokens_today = 0
          /\ budget_op.op = "record" =>
                /\ budgets[p].requests_today = 1
                /\ budgets[p].tokens_today = budget_op.tokens

\* C8 witness: the first record of a new day on a provider that had used up its
\* request limit the day before.
C8_Witness ==
    /\ budget_op.op = "record"
    /\ budget_op.prov \in budget_op.stale
    /\ budget_op.tokens > 0
    /\ budget_op.prev_requests >= budgets[budget_op.prov].daily_request_limit
    /\ budgets[budget_op.prov].requests_today = 1

\* C9: summary() called after the date advanced past a provider's last_reset
\* reports requests_today = 0 and tokens_today = 0 for that provider, also when
\* it is the first budget operation on that provider in the new day.
C9_SummaryAfterRollover ==
    budget_op.op = "summary" =>
        \A p \in budget_op.stale :
            /\ summary_out[p].requests_today = 0
            /\ summary_out[p].tokens_today = 0

(***************************************************************************)
(* classify (messages/intent.py). A text is the sequence of its            *)
(* whitespace-delimited tokens, so text.strip() is empty iff the sequence  *)
(* is, and text.split()[0] is the first token.                             *)
(***************************************************************************)
\* The tokens that begin with "/".
SlashTokens == {"/status", "/Photo", "/fault", "/helpmenu"}

\* str.lower() on a token.
Lower(tok) == IF tok = "/Photo" THEN "/photo" ELSE tok

\* The word a \b...\b alternative sees in a token: case folded (re.I), and the
\* leading "/" is not a word character.
Word(tok) ==
    CASE Lower(tok) = "/status" -> "status"
      [] Lower(tok) = "/photo" -> "photo"
      [] Lower(tok) = "/fault" -> "fault"
      [] Lower(tok) = "/helpmenu" -> "helpmenu"
      [] OTHER -> Lower(tok)

\* cmd_map
cmd_map ==
    [c \in {"/diagram", "/wiring", "/diagnose", "/status", "/photo", "/wo", "/workorder",
            "/admin", "/health", "/help", "/start", "/search", "/run", "/gist",
            "/project"} |->
        CASE c \in {"/diagram", "/wiring"} -> "diagram"
          [] c = "/diagnose" -> "diagnose"
          [] c = "/status" -> "status"
          [] c = "/photo" -> "photo"
          [] c \in {"/wo", "/workorder"} -> "work_order"
          [] c \in {"/admin", "/health"} -> "admin"
          [] c \in {"/help", "/start"} -> "help"
          [] c = "/search" -> "search"
          [] c = "/run" -> "shell"
          [] c = "/gist" -> "gist"
          [] OTHER -> "project"]

\* One entry of _PATTERNS. kind "word": some token is one of words, or some run
\* of adjacent tokens is one of phrases; "pair": a token of words is followed,
\* later in the text, by a token of seconds; "whole": the text is exactly one
\* token of words, or begins with one of phrases; "lead": the text begins with
\* a raw token of words and goes on after it.
Pattern(kind, words, phrases, seconds, intent) ==
    [kind |-> kind, words |-> words, phrases |-> phrases, seconds |-> seconds,
     intent |-> intent]

EquipmentWords ==
    {"motor", "conveyor", "equipment", "machine", "line", "plc", "vfd", "pump",
     "compressor"}

\* _PATTERNS, in order.
PATTERNS ==
    << Pattern("word", {"workorder"},
               {<<"work", "order">>, <<"open", "wo">>, <<"open", "a", "wo">>,
                <<"create", "wo">>, <<"create", "a", "wo">>}, {}, "work_order"),
       Pattern("word", {"wiring", "diagram", "schematic", "blueprint", "draw", "drawing",
                        "circuit", "print", "prints", "redraw", "re-draw"},
               {}, {}, "diagram"),
       Pattern("pair", {"update", "redo", "fix", "change", "modify"}, {},
               {"print", "diagram", "drawing", "schematic"}, "diagram"),
       Pattern("word", {"scaffold", "bootstrap", "starterkit", "boilerplate"},
               {<<"build", "me">>, <<"create", "a", "project">>, <<"start", "a", "new">>,
                <<"starter", "kit">>}, {}, "project"),
       Pattern("word", {"gist", "writeup"},
               {<<"write", "up">>, <<"draft", "a">>, <<"prd", "for">>,
                <<"technical", "spec">>, <<"build", "guide">>, <<"strategy", "doc">>},
               {}, "gist"),
       Pattern("word", {"fault", "alarm", "broken", "diagnos"}, {}, {}, "diagnose"),
       Pattern("pair", {"why"}, {},
               {"stopped", "fault", "error", "alarm", "broken", "down"}, "diagnose"),
       Pattern("pair", EquipmentWords, {}, {"stopped", "down", "error"}, "diagnose"),
       Pattern("pair", {"stopped", "down", "error"}, {}, EquipmentWords, "diagnose"),
       Pattern("word", {"status", "tag", "tags", "reading", "temp", "pressure", "running",
                        "io"}, {}, {}, "status"),
       Pattern("word", {"workorder", "wo", "maintenance", "schedule"},
               {<<"work", "order">>}, {}, "work_order"),
       Pattern("word", {"health", "budget", "admin", "restart", "config"}, {}, {},
               "admin"),
       Pattern("whole", {"help", "commands", "menu"}, {<<"what", "can", "you">>}, {},
               "help"),
       Pattern("word", {"search", "lookup", "google", "websearch"},
               {<<"look", "up">>, <<"find", "out">>, <<"find", "info">>,
                <<"web", "search">>}, {}, "search"),
       Pattern("lead", {"$", "run", "execute", "shell"}, {}, {}, "shell") >>

\* The words of a text, token by token.
WordsOf(text) == [i \in 1..Len(text) |-> Word(text[i])]

\* Does phrase ph occur in ws starting at position i?
PhraseAt(ws, ph, i) ==
    /\ i + Len(ph) - 1 <= Len(ws)
    /\ \A k \in 1..Len(ph) : ws[i + k - 1] = ph[k]

\* pattern.search(text)
Matches(pat, text) ==
    LET ws == WordsOf(text)
    IN CASE pat.kind = "word" ->
              \/ \E i \in 1..Len(ws) : ws[i] \in pat.words
              \/ \E ph \in pat.phrases : \E i \in 1..Len(ws) : PhraseAt(ws, ph, i)
         [] pat.kind = "pair" ->
              \E i \in 1..Len(ws) : \E j \in (i + 1)..Len(ws) :
                  ws[i] \in pat.words /\ ws[j] \in pat.seconds
         [] pat.kind = "whole" ->
              \/ Len(ws) = 1 /\ ws[1] \in pat.words
              \/ \E ph \in pat.phrases : PhraseAt(ws, ph, 1)
         [] OTHER ->
              Len(text) >= 2 /\ Lower(text[1]) \in pat.words

\* Mutant of HasImageAttachment: only the first attachment is looked at.
HasImageAttachment_FirstOnly(atts) == Len(atts) > 0 /\ atts[1] = "image"

\* The attachment loop of classify: some attachment has type "image".
HasImageAttachment(atts) == \E i \in 1..Len(atts) : atts[i] = "image"

\* Mutant of FirstMatch: the last matching pattern wins.
FirstMatch_Last(text) ==
    LET hits == {k \in 1..Len(PATTERNS) : Matches(PATTERNS[k], text)}
    IN IF hits = {} THEN 0 ELSE CHOOSE k \in hits : \A j \in hits : k >= j

\* The pattern loop of classify: the index of the first matching pattern, 0 if none.
FirstMatch(text) ==
    LET hits == {k \in 1..Len(PATTERNS) : Matches(PATTERNS[k], text)}
    IN IF hits = {} THEN 0 ELSE CHOOSE k \in hits : \A j \in hits : k <= j

\* classify(message)
classify(m) ==
    IF HasImageAttachment(m.attachments) THEN "photo"
    ELSE IF m.text = <<>> THEN "unknown"
    ELSE IF m.text[1] \in SlashTokens /\ Lower(m.text[1]) \in DOMAIN cmd_map
         THEN cmd_map[Lower(m.text[1])]
    ELSE IF FirstMatch(m.text) # 0 THEN PATTERNS[FirstMatch(m.text)].intent
    ELSE "chat"

\* Inputs of the classify model.
MaxWords == 2          \* tokens in a text
MaxAttachments == 2    \* attachments of a message
Vocabulary ==
    SlashTokens \cup {"workorder", "wiring", "status", "fault", "help", "run", "hello"}
AttachmentTypes == {"image", "audio", "document"}

\* The sequences over S of length at most n.
SeqUpTo(S, n) == UNION {[1..k -> S] : k \in 0..n}

\* classify(inbound) is called and returns.
Classify ==
    /\ intent_out = "none"
    /\ intent_out' = classify(inbound)
    /\ UNCHANGED <<llmVars, skillVars, inbound, registry, metrics, dp>>

\* The gateway has built an InboundMessage (intent left UNKNOWN) from any text
\* and attachments.
InitClassify ==
    /\ LlmIdle(InitBudgets(0))
    /\ \E text \in SeqUpTo(Vocabulary, MaxWords), atts \in SeqUpTo(AttachmentTypes, MaxAttachments) :
          inbound = InboundMessage("telegram", "u1", text, atts, "unknown")
    /\ intent_out = "none"
    /\ registry = register_builtins
    /\ metrics = NoMetrics
    /\ dp = [t \in Tasks |-> IdleDispatch]
    /\ SkillsIdle

NextClassify == Classify

SpecClassify == InitClassify /\ [][NextClassify]_vars

\* C10: a message that carries at least one attachment of type image is
\* classified PHOTO, whatever its text is.
C10_ImageIsPhoto ==
    (intent_out # "none" /\ \E i \in 1..Len(inbound.attachments) : inbound.attachments[i] = "image")
        => intent_out = "photo"

\* C10 witness: an image that is not the first attachment, on a message whose
\* text is a "/" command of another intent, has been classified PHOTO.
C10_Witness ==
    /\ intent_out = "photo"
    /\ inbound.text = <<"/status", "fault">>
    /\ inbound.attachments = <<"document", "image">>

\* C11: classify applies its rules in a fixed order, first match wins: an image
\* attachment gives PHOTO; else an empty text gives UNKNOWN; else a first token
\* found in the command table gives that command's intent whatever follows it,
\* and an unknown "/" command falls through to the patterns; else the first
\* matching entry of the pattern list gives the intent, so an explicit
\* work-order phrase beats a fault or status word; else the result is CHAT.
C11_RuleOrder ==
    LET m == inbound
        img == \E i \in 1..Len(m.attachments) : m.attachments[i] = "image"
        cmd == m.text # <<>> /\ Lower(m.text[1]) \in DOMAIN cmd_map
        hit(k) == Matches(PATTERNS[k], m.text)
    IN intent_out # "none" =>
        /\ img => intent_out = "photo"
        /\ (~img /\ m.text = <<>>) => intent_out = "unknown"
        /\ (~img /\ cmd) => intent_out = cmd_map[Lower(m.text[1])]
        /\ (~img /\ m.text # <<>> /\ ~cmd) =>
              /\ \A k \in 1..Len(PATTERNS) :
                    (hit(k) /\ \A j \in 1..(k - 1) : ~hit(j)) => intent_out = PATTERNS[k].intent
              /\ (\A k \in 1..Len(PATTERNS) : ~hit(k)) => intent_out = "chat"
              /\ (\E i \in 1..Len(m.text) : m.text[i] = "workorder") => intent_out = "work_order"
              /\ m.text = <<"/helpmenu">> => intent_out = "chat"

\* C11 witness: a text with a work-order phrase followed by a fault word, on a
\* message whose only attachment is not an image, was classified WORK_ORDER.
C11_Witness ==
    /\ intent_out = "work_order"
    /\ inbound.text = <<"workorder", "fault">>
    /\ inbound.attachments = <<"audio">>

(***************************************************************************)
(* dispatch (app.py): classify, look up the skill, await it, reply.        *)
(***************************************************************************)
\* The reply of dispatch when no skill is registered for the intent or for CHAT.
NoSkillReply(m) ==
    OutboundMessage(m.channel, m.user_id, "No skill available to handle this request.")

\* Mutant of FailureReply: the failure reply always goes out on Telegram.
FailureReply_Telegram(m) ==
    OutboundMessage("telegram", m.user_id,
                    "An error occurred processing your request. Please try again.")

\* The reply built in dispatch's except branch.
FailureReply(m) ==
    OutboundMessage(m.channel, m.user_id,
                    "An error occurred processing your request. Please try again.")

\* What a built-in skill's handle() returns: every OutboundMessage a built-in
\* handle() constructs takes channel and user_id from the message it was given.
SkillReply(skill, m) == OutboundMessage(m.channel, m.user_id, skill)

\* message.intent after the first statement of dispatch.
Classified(m) ==
    IF m.intent = "unknown" THEN [m EXCEPT !.intent = classify(m)] ELSE m

\* skill = registry.get(message.intent) or registry.get(Intent.CHAT)
FindSkill(reg, intent) ==
    IF reg[intent] # NoSkill THEN reg[intent] ELSE reg["chat"]

\* metrics.record_request(intent)
record_request(mt, intent) ==
    [request_count |-> mt.request_count + 1,
     intent_counts |-> [mt.intent_counts EXCEPT ![intent] = @ + 1]]

\* Mutant of OnSkillException: no except branch, the exception leaves dispatch.
OnSkillException_Propagates(f) == [f EXCEPT !.pc = "raised", !.path = "exception"]

\* dispatch's except branch: the exception is logged and the failure reply returned.
OnSkillException(f) ==
    [f EXCEPT !.pc = "returned", !.path = "exception", !.out = FailureReply(f.msg)]

\* dispatch(m) is called and runs to the no-skill return or to the await of
\* skill.handle.
DispatchStart(t, m) ==
    /\ dp[t].pc \in {"idle", "returned", "raised"}
    /\ metrics.request_count < MaxHandled
    /\ LET cm == Classified(m)
           skill == FindSkill(registry, cm.intent)
       IN dp' = [dp EXCEPT ![t] =
                    IF skill = NoSkill
                    THEN [pc |-> "returned", msg |-> cm, received |-> m, skill |-> NoSkill,
                          path |-> "no_skill", out |-> NoSkillReply(cm)]
                    ELSE [pc |-> "handling", msg |-> cm, received |-> m, skill |-> skill,
                          path |-> "none", out |-> IdleDispatch.out]]
    /\ UNCHANGED <<llmVars, skillVars, inbound, intent_out, registry, metrics>>

\* skill.handle returns its reply: the request is counted and the reply returned.
SkillReturns(t) ==
    /\ dp[t].pc = "handling"
    /\ metrics' = record_request(metrics, dp[t].msg.intent)
    /\ dp' = [dp EXCEPT ![t].pc = "returned", ![t].path = "skill",
                        ![t].out = SkillReply(dp[t].skill, dp[t].msg)]
    /\ UNCHANGED <<llmVars, skillVars, inbound, intent_out, registry>>

\* skill.handle raises an Exception.
SkillRaises(t) ==
    /\ dp[t].pc = "handling"
    /\ dp' = [dp EXCEPT ![t] = OnSkillException(dp[t])]
    /\ UNCHANGED <<llmVars, skillVars, inbound, intent_out, registry, metrics>>

\* The await of skill.handle is left by a BaseException that is not an Exception
\* (asyncio.CancelledError when the task is cancelled, KeyboardInterrupt,
\* SystemExit): "except Exception" does not match it and it leaves dispatch.
SkillCancelled(t) ==
    /\ dp[t].pc = "handling"
    /\ dp' = [dp EXCEPT ![t].pc = "raised", ![t].path = "cancelled"]
    /\ UNCHANGED <<llmVars, skillVars, inbound, intent_out, registry, metrics>>

\* Registry contents: the built-ins, a registry holding only the status skill,
\* and an empty registry.
Registries ==
    {register_builtins,
     [i \in Intent |-> IF i = "status" THEN "status" ELSE NoSkill],
     [i \in Intent |-> NoSkill]}

\* The inbound messages of the dispatch model.
DispatchMessages ==
    {InboundMessage(ch, uid, c.text, c.atts, c.intent) :
        ch \in {"telegram", "http_api"}, uid \in {"u1", "u2"},
        c \in {[text |-> <<>>, atts |-> <<>>, intent |-> "unknown"],
               [text |-> <<"/status">>, atts |-> <<>>, intent |-> "unknown"],
               [text |-> <<"hello">>, atts |-> <<"image">>, intent |-> "unknown"],
               [text |-> <<"gist">>, atts |-> <<>>, intent |-> "unknown"],
               [text |-> <<"fault">>, atts |-> <<>>, intent |-> "diagnose"]}}

InitDispatch ==
    /\ LlmIdle(InitBudgets(0))
    /\ inbound = InboundMessage("telegram", "u1", <<>>, <<>>, "unknown")
    /\ intent_out = "none"
    /\ registry \in Registries
    /\ metrics = NoMetrics
    /\ dp = [t \in Tasks |-> IdleDispatch]
    /\ SkillsIdle

NextDispatch ==
    \/ \E t \in Tasks, m \in DispatchMessages : DispatchStart(t, m)
    \/ \E t \in Tasks : SkillReturns(t)
    \/ \E t \in Tasks : SkillRaises(t)
    \/ \E t \in Tasks : SkillCancelled(t)

SpecDispatch == InitDispatch /\ [][NextDispatch]_vars

C7_SameChannelAndUser ==
    \A t \in Tasks :
        dp[t].pc = "returned" =>
            /\ dp[t].out.channel = dp[t].received.channel
            /\ dp[t].out.user_id = dp[t].received.user_id

\* C7 witness: with only the status skill registered, one dispatch of an HTTP
\* message ended on the exception path while another, of a different user,
\* ended on the no-skill path, after a request had been served by the skill.
C7_Witness ==
    /\ dp["t1"].pc = "returned" /\ dp["t1"].path = "exception"
    /\ dp["t1"].received.channel = "http_api"
    /\ dp["t2"].pc = "returned" /\ dp["t2"].path = "no_skill"
    /\ dp["t2"].received.user_id # dp["t1"].received.user_id
    /\ metrics.request_count > 0

(***************************************************************************)
(* detect_faults (diagnosis/faults.py). Numbers are held in tenths, so     *)
(* that int() truncates and float() keeps the fraction.                    *)
(***************************************************************************)
\* bool(tags.get(key, 0))
ToBool(v) == v \notin {Absent, Null, 0}

\* int(tags.get(key, 0)) for a value that int() accepts: truncation.
ToInt(v) == IF v = Absent THEN 0 ELSE v \div 10

\* float(tags.get(key, 0)) for a value that float() accepts, in tenths.
ToFloat(v) == IF v = Absent THEN 0 ELSE v

\* int(None) and float(None) raise TypeError; bool(None) is False.
ConversionRaises(t) == \E k \in NumberTags : t[k] = Null

\* The locals of detect_faults after its thirteen conversions.
Converted(t) ==
    [motor_running |-> ToBool(t["motor_running"]),
     motor_speed |-> ToInt(t["motor_speed"]),
     motor_current |-> ToFloat(t["motor_current"]),
     temperature |-> ToFloat(t["temperature"]),
     pressure |-> ToInt(t["pressure"]),
     conveyor_running |-> ToBool(t["conveyor_running"]),
     conveyor_speed |-> ToInt(t["conveyor_speed"]),
     sensor_1 |-> ToBool(t["sensor_1"]),
     sensor_2 |-> ToBool(t["sensor_2"]),
     fault_alarm |-> ToBool(t["fault_alarm"]),
     e_stop |-> ToBool(t["e_stop"]),
     error_code |-> ToInt(t["error_code"])]

\* The fault rules in the order detect_faults tests them.
RuleCodes == <<"E001", "M001", "T001", "C001", "M002", "P001", "M003", "T002", "PLC">>

\* The condition of each rule.
RuleFires(r, c) ==
    CASE r = "E001" -> c.e_stop
      [] r = "M001" -> c.motor_running /\ c.motor_current > 50
      [] r = "T001" -> c.temperature > 800
      [] r = "C001" -> c.motor_running /\ c.conveyor_running /\ c.sensor_1 /\ c.sensor_2
      [] r = "M002" -> ~c.motor_running /\ c.conveyor_speed > 0 /\ ~c.e_stop
      [] r = "P001" -> c.pressure < 60 /\ c.motor_running
      [] r = "M003" -> c.motor_running /\ c.motor_speed < 30 /\ c.conveyor_speed > 50
      [] r = "T002" -> 650 < c.temperature /\ c.temperature <= 800
      [] OTHER -> c.fault_alarm /\ c.error_code > 0

\* The severity each rule gives its FaultDiagnosis.
RuleSeverity(r) ==
    CASE r = "E001" -> "emergency"
      [] r \in {"M001", "T001", "C001", "M002", "PLC"} -> "critical"
      [] OTHER -> "warning"

\* severity_order
severity_order(sev) ==
    CASE sev = "emergency" -> 0
      [] sev = "critical" -> 1
      [] sev = "warning" -> 2
      [] OTHER -> 3

\* The FaultDiagnosis a rule appends; the PLC rule formats the error code.
Diagnosis(r, c) ==
    [fault_code |-> IF r = "PLC" THEN (IF c.error_code = 7 THEN "PLC007" ELSE "PLCnnn") ELSE r,
     severity |-> RuleSeverity(r)]

\* The rules that fire, in rule order.
Fired(c) == SelectSeq(RuleCodes, LAMBDA r : RuleFires(r, c))

\* faults before the sort: the fired rules' diagnoses, or the single OK / IDLE.
Unsorted(c) ==
    IF Fired(c) = <<>>
    THEN << [fault_code |-> IF c.motor_running /\ c.conveyor_running THEN "OK" ELSE "IDLE",
             severity |-> "info"] >>
    ELSE [i \in 1..Len(Fired(c)) |-> Diagnosis(Fired(c)[i], c)]

\* faults.sort(key=severity_order): a stable sort on four keys.
SortBySeverity(fs) ==
    SelectSeq(fs, LAMBDA f : severity_order(f.severity) = 0)
        \o SelectSeq(fs, LAMBDA f : severity_order(f.severity) = 1)
        \o SelectSeq(fs, LAMBDA f : severity_order(f.severity) = 2)
        \o SelectSeq(fs, LAMBDA f : severity_order(f.severity) = 3)

\* detect_faults(tags), for a tag map whose conversions succeed.
detect_faults(t) == SortBySeverity(Unsorted(Converted(t)))

\* detect_faults(tags) is called: it returns its list or a conversion raises.
DetectFaults ==
    /\ faults_out.status = "none"
    /\ faults_out' =
          IF ConversionRaises(tags)
          THEN [status |-> "raised", faults |-> <<>>, fired |-> {}]
          ELSE [status |-> "returned", faults |-> detect_faults(tags),
                fired |-> {Fired(Converted(tags))[i] : i \in 1..Len(Fired(Converted(tags)))}]
    /\ UNCHANGED <<llmVars, gatewayVars, tags, historyVars, toolVars>>

\* Tag values of the model, in tenths, on both sides of each threshold.
TagValues(k) ==
    CASE k \in FlagTags -> {Absent, 1}
      [] k = "motor_speed" -> {Absent, 299, 300}
      [] k = "motor_current" -> {Absent, 50, 51, Null}
      [] k = "temperature" -> {650, 651, 800, 801, Null}
      [] k = "pressure" -> {Absent, 599, 600}
      [] k = "conveyor_speed" -> {Absent, 509, 510}
      [] OTHER -> {Absent, 70}

\* The PLC-telemetry connector has delivered any tag map.
InitFaults ==
    /\ LlmIdle(InitBudgets(0))
    /\ GatewayIdle
    /\ tags \in [motor_running : TagValues("motor_running"),
                 conveyor_running : TagValues("conveyor_running"),
                 sensor_1 : TagValues("sensor_1"), sensor_2 : TagValues("sensor_2"),
                 fault_alarm : TagValues("fault_alarm"), e_stop : TagValues("e_stop"),
                 motor_speed : TagValues("motor_speed"),
                 motor_current : TagValues("motor_current"),
                 temperature : TagValues("temperature"),
                 pressure : TagValues("pressure"),
                 conveyor_speed : TagValues("conveyor_speed"),
                 error_code : TagValues("error_code")]
    /\ faults_out = NoFaults
    /\ HistoryIdle
    /\ ToolsIdle

NextFaults == DetectFaults

SpecFaults == InitFaults /\ [][NextFaults]_vars

\* The severities of a fault list are in non-decreasing ordinal.
SortedBySeverity(fs) ==
    \A i \in 1..Len(fs) : \A j \in i..Len(fs) :
        severity_order(fs[i].severity) <= severity_order(fs[j].severity)

\* C12: for any tag map, detect_faults returns a non-empty list in
\* non-decreasing severity ordinal, and the single INFO entry (OK or IDLE) is
\* in it exactly when no fault rule fired.
C12_FaultList ==
    faults_out.status # "none" =>
        /\ faults_out.status = "returned"
        /\ Len(faults_out.faults) >= 1
        /\ SortedBySeverity(faults_out.faults)
        /\ Cardinality({i \in 1..Len(faults_out.faults) :
                           faults_out.faults[i].severity = "info"}) =
              (IF faults_out.fired = {} THEN 1 ELSE 0)
        /\ \A i \in 1..Len(faults_out.faults) :
              faults_out.faults[i].severity = "info" =>
                  faults_out.faults[i].fault_code \in {"OK", "IDLE"}

(***************************************************************************)
(* Conversation history of the Telegram adapter (gateway/telegram.py).     *)
(***************************************************************************)
MAX_HISTORY == 20
HISTORY_TTL == 3600

\* Entries user u may add in a behaviour: u1 fills its history past the cap.
AddQuota(u) == IF u = "u1" THEN MaxAdds ELSE 1

\* The users for whom a dispatch fails in the model.
FailingUsers == {"u2"}

WallSteps == {1800}    \* seconds the wall clock may advance in one step (half a TTL)

\* The last n elements of a sequence: seq[-n:].
LastN(q, n) == IF Len(q) <= n THEN q ELSE SubSeq(q, Len(q) - n + 1, Len(q))

\* Mutant of Pruned: nothing expires.
Pruned_KeepsAll(h, now) == h

\* _get_history, the store side: history[:] = the entries younger than the TTL.
Pruned(h, now) == SelectSeq(h, LAMBDA e : now - e.ts < HISTORY_TTL)

\* _get_history, the value returned: role and content of each entry kept.
get_history(h, now) ==
    [i \in 1..Len(Pruned(h, now)) |->
        [role |-> Pruned(h, now)[i].role, content |-> Pruned(h, now)[i].content]]

\* metadata={"history": history} if history else {}, as the skills read it
\* with message.metadata.get("history", []).
Metadata(h) == [has_history |-> h # <<>>, history |-> IF h # <<>> THEN h ELSE <<>>]

\* Mutant of add_to_history: over capacity, the newest entries are dropped.
add_to_history_KeepOldest(h, role, content, now) ==
    LET h1 == Append(h, [role |-> role, content |-> content, ts |-> now])
    IN IF Len(h1) > MAX_HISTORY THEN SubSeq(h1, 1, MAX_HISTORY) ELSE h1

\* _add_to_history: append, then keep the last MAX_HISTORY entries.
add_to_history(h, role, content, now) ==
    LET h1 == Append(h, [role |-> role, content |-> content, ts |-> now])
    IN IF Len(h1) > MAX_HISTORY THEN LastN(h1, MAX_HISTORY) ELSE h1

\* Mutant of Cleared: /clear empties every user's history.
Cleared_All(hs, u) == [v \in Users |-> <<>>]

\* _on_clear: self._history[user] = [].
Cleared(hs, u) == [hs EXCEPT ![u] = <<>>]

\* _on_message / _on_photo / _on_command up to the await of dispatch: the
\* history is read (and pruned), injected into the InboundMessage, and the
\* user's message is added.
OnMessageStart(u) ==
    /\ hseq[u] < AddQuota(u)
    /\ pending[u] = 0
    /\ LET kept == Pruned(history[u], wall)
       IN /\ history' = [history EXCEPT
                            ![u] = add_to_history(kept, "user", hseq[u] + 1, wall)]
          /\ hist_op' = [op |-> "message", user |-> u, now |-> wall, before |-> history[u],
                         returned |-> kept, injected |-> Metadata(get_history(history[u], wall)),
                         was_cleared |-> since_clear[u]]
    /\ hseq' = [hseq EXCEPT ![u] = @ + 1]
    /\ pending' = [pending EXCEPT ![u] = 1]
    /\ since_clear' = [since_clear EXCEPT ![u] = FALSE]
    /\ UNCHANGED <<llmVars, gatewayVars, faultVars, toolVars, wall, wticks>>

\* dispatch returned and the reply was sent: the assistant's text is added.
OnMessageReplied(u) ==
    /\ pending[u] = 1
    /\ history' = [history EXCEPT
                      ![u] = add_to_history(history[u], "assistant", hseq[u] + 1, wall)]
    /\ hist_op' = [NoHistOp EXCEPT !.op = "reply", !.user = u, !.now = wall,
                                   !.before = history[u]]
    /\ hseq' = [hseq EXCEPT ![u] = @ + 1]
    /\ pending' = [pending EXCEPT ![u] = 0]
    /\ since_clear' = [since_clear EXCEPT ![u] = FALSE]
    /\ UNCHANGED <<llmVars, gatewayVars, faultVars, toolVars, wall, wticks>>

\* dispatch or the sending of the reply raised: nothing is added.
OnMessageFailed(u) ==
    /\ pending[u] = 1
    /\ pending' = [pending EXCEPT ![u] = 0]
    /\ hist_op' = [NoHistOp EXCEPT !.op = "failed", !.user = u, !.now = wall,
                                   !.before = history[u]]
    /\ UNCHANGED <<llmVars, gatewayVars, faultVars, toolVars, wall, wticks, history, hseq, since_clear>>

\* _on_clear
OnClear(u) ==
    /\ history[u] # <<>>
    /\ history' = Cleared(history, u)
    /\ since_clear' = [since_clear EXCEPT ![u] = TRUE]
    /\ hist_op' = [NoHistOp EXCEPT !.op = "clear", !.user = u, !.now = wall,
                                   !.before = history[u]]
    /\ UNCHANGED <<llmVars, gatewayVars, faultVars, toolVars, wall, wticks, hseq, pending>>

\* The wall clock advances.
WallTick(d) ==
    /\ wticks < MaxWallTicks
    /\ wall' = wall + d
    /\ wticks' = wticks + 1
    /\ hist_op' = NoHistOp
    /\ UNCHANGED <<llmVars, gatewayVars, faultVars, toolVars, history, hseq, pending, since_clear>>

InitHistory == LlmIdle(InitBudgets(0)) /\ GatewayIdle /\ FaultsIdle /\ HistoryIdle /\ ToolsIdle

NextHistory ==
    \/ \E u \in Users : OnMessageStart(u)
    \/ \E u \in Users : OnMessageReplied(u)
    \/ \E u \in FailingUsers : OnMessageFailed(u)
    \/ \E u \in Users : OnClear(u)
    \/ \E d \in WallSteps : WallTick(d)

SpecHistory == InitHistory /\ [][NextHistory]_vars

\* The history the last handler step added to, as it was just before the add.
AddedTo == IF hist_op.op = "message" THEN hist_op.returned ELSE hist_op.before

\* C13: every user's history holds at most MAX_HISTORY entries, in insertion
\* order; an add puts the new entry last and, over capacity, discards from the
\* front, so the store keeps the most recent entries in their order.
C13_Capacity ==
    /\ \A u \in Users : Len(history[u]) <= MAX_HISTORY
    /\ \A u \in Users : \A i, j \in 1..Len(history[u]) :
            i < j => history[u][i].content < history[u][j].content
    /\ hist_op.op \in {"message", "reply"} =>
            LET h == history[hist_op.user]
                n == Len(h)
                m == Len(AddedTo)
            IN /\ n = (IF m + 1 > MAX_HISTORY THEN MAX_HISTORY ELSE m + 1)
               /\ h[n] = [role |-> IF hist_op.op = "message" THEN "user" ELSE "assistant",
                          content |-> hseq[hist_op.user], ts |-> hist_op.now]
               /\ \A i \in 1..(n - 1) : h[i] = AddedTo[m - (n - 1) + i]

\* An add to a full history discarded its oldest entry.
C13_Witness ==
    /\ hist_op.op \in {"message", "reply"}
    /\ Len(AddedTo) = MAX_HISTORY
    /\ Len(history[hist_op.user]) = MAX_HISTORY
    /\ history[hist_op.user][1] = AddedTo[2]

\* C14: from a clear of a user's history until the next add for that user the
\* store is empty, so every get returns (and every message carries) the empty
\* history; a clear leaves the other users' histories as they were.
C14_ClearIsPerUser ==
    /\ [](\A u \in Users : since_clear[u] =>
              /\ history[u] = <<>>
              /\ get_history(history[u], wall) = <<>>)
    /\ [](hist_op.op = "message" /\ hist_op.was_cleared =>
              /\ hist_op.returned = <<>>
              /\ hist_op.injected.history = <<>>)
    /\ [][hist_op'.op = "clear" =>
              /\ history'[hist_op'.user] = <<>>
              /\ \A v \in Users \ {hist_op'.user} : history'[v] = history[v]]_vars

\* A message that followed a clear read the empty history while another user
\* still had entries.
C14_Witness ==
    /\ hist_op.op = "message"
    /\ hist_op.was_cleared
    /\ hseq[hist_op.user] > 1
    /\ \E v \in Users \ {hist_op.user} : history[v] # <<>>

\* C15: a get returns no entry as old as the TTL: it returns, in insertion
\* order, exactly the entries of the store younger than HISTORY_TTL, leaves
\* only those in the store, and the message built next carries that list.
C15_GetPrunes ==
    hist_op.op = "message" =>
        LET b == hist_op.before
            r == hist_op.returned
            m == hist_op.injected.history
            h == history[hist_op.user]
        IN /\ \A i \in 1..Len(r) : hist_op.now - r[i].ts < HISTORY_TTL
           /\ {r[i] : i \in 1..Len(r)} =
                  {b[i] : i \in {k \in 1..Len(b) : hist_op.now - b[k].ts < HISTORY_TTL}}
           /\ \A i, j \in 1..Len(r) : i < j => r[i].content < r[j].content
           /\ Len(m) = Len(r)
           /\ \A i \in 1..Len(r) : m[i] = [role |-> r[i].role, content |-> r[i].content]
           /\ \A i \in 1..Len(h) : hist_op.now - h[i].ts < HISTORY_TTL

\* A get dropped an expired entry and returned a younger one.
C15_Witness ==
    /\ hist_op.op = "message"
    /\ hist_op.returned # <<>>
    /\ Len(hist_op.returned) < Len(hist_op.before)
    /\ \E i \in 1..Len(hist_op.before) : hist_op.now - hist_op.before[i].ts = HISTORY_TTL

(***************************************************************************)
(* The per-user sliding-window rate limiter (gateway/rate_limit.py).       *)
(***************************************************************************)
RateSteps == {1800}    \* seconds the limiter's clock may advance in one step

\* [t for t in window if t > cutoff], cutoff = now - 3600.
RateKept(w, now) == SelectSeq(w, LAMBDA t : t > now - RATE_WINDOW)

\* min(window) of a non-empty window.
Oldest(w) == CHOOSE t \in {w[i] : i \in 1..Len(w)} : \A i \in 1..Len(w) : t <= w[i]

\* Mutant of Allows: a full window still takes one more request.
Allows_Inclusive(w, max) == Len(w) <= max

\* The negation of `len(window) >= self._max`.
Allows(w, max) == Len(w) < max

\* RateLimiter.check(user_id): prune, then reject a full window (min() of an
\* empty window raises ValueError when max_per_hour is 0) or append now.
check(u) ==
    /\ rl_n < MaxChecks
    /\ rl_n' = rl_n + 1
    /\ LET kept == RateKept(windows[u], rl_now)
           op == [NoRateOp EXCEPT !.op = "check", !.user = u, !.now = rl_now,
                                  !.before = windows[u], !.seen = accepted[u]]
       IN IF ~Allows(kept, rl_max)
          THEN /\ windows' = [windows EXCEPT ![u] = kept]
               /\ accepted' = accepted
               /\ rl_op' = IF kept = <<>>
                           THEN [op EXCEPT !.raised = TRUE]
                           ELSE [op EXCEPT !.retry = Oldest(kept) + RATE_WINDOW - rl_now]
          ELSE /\ windows' = [windows EXCEPT ![u] = Append(kept, rl_now)]
               /\ accepted' = [accepted EXCEPT ![u] = Append(@, rl_now)]
               /\ rl_op' = [op EXCEPT !.allowed = TRUE]
    /\ UNCHANGED <<llmVars, gatewayVars, faultVars, historyVars, restVars, kbVars, photoVars,
                   shellVars, rl_max, rl_now, rl_ticks>>

\* The limiter's clock advances.
RateTick(d) ==
    /\ rl_ticks < MaxRateTicks
    /\ rl_now' = rl_now + d
    /\ rl_ticks' = rl_ticks + 1
    /\ rl_op' = NoRateOp
    /\ UNCHANGED <<llmVars, gatewayVars, faultVars, historyVars, restVars, kbVars, photoVars,
                   shellVars, rl_max, windows,
                   accepted, rl_n>>

InitRate ==
    /\ LlmIdle(InitBudgets(0)) /\ GatewayIdle /\ FaultsIdle /\ HistoryIdle
    /\ \E max \in 0..MaxPerHour : RateIdle(max)
    /\ KbIdle
    /\ PhotoIdle(FALSE)
    /\ ShellIdle({}, FALSE)
    /\ RestIdle

NextRate ==
    \/ \E u \in Users : check(u)
    \/ \E d \in RateSteps : RateTick(d)

SpecRate == InitRate /\ [][NextRate]_vars

\* The requests of the checked user accepted less than an hour before the check.
RecentlyAccepted ==
    {i \in 1..Len(rl_op.seen) : rl_op.seen[i] > rl_op.now - RATE_WINDOW}

\* C16: check accepts a request exactly when fewer than max_per_hour of the
\* user's accepted requests are less than an hour old; a rejected request adds
\* nothing; no hour-long window holds more than max_per_hour accepted requests
\* of one user; a check changes nothing of any other user.
C16_SlidingWindow ==
    /\ [](rl_op.op = "check" =>
            /\ rl_op.allowed <=> Cardinality(RecentlyAccepted) < rl_max
            /\ rl_op.allowed =>
                  /\ windows[rl_op.user] = Append(RateKept(rl_op.before, rl_op.now), rl_op.now)
                  /\ accepted[rl_op.user] = Append(rl_op.seen, rl_op.now)
            /\ ~rl_op.allowed =>
                  /\ windows[rl_op.user] = RateKept(rl_op.before, rl_op.now)
                  /\ accepted[rl_op.user] = rl_op.seen)
    /\ [](\A u \in Users : \A i \in 1..Len(accepted[u]) :
            Cardinality({j \in 1..Len(accepted[u]) :
                            /\ accepted[u][i] <= accepted[u][j]
                            /\ accepted[u][j] < accepted[u][i] + RATE_WINDOW}) <= rl_max)
    /\ [][rl_op'.op = "check" =>
            \A v \in Users \ {rl_op'.user} :
                windows'[v] = windows[v] /\ accepted'[v] = accepted[v]]_vars

\* A request was accepted because an expired timestamp had left the window,
\* after an earlier request had been rejected on a full window, while the
\* other user's window held a request.
C16_Witness ==
    /\ rl_op.op = "check"
    /\ rl_op.allowed
    /\ Len(RateKept(rl_op.before, rl_op.now)) < Len(rl_op.before)
    /\ Len(rl_op.before) = rl_max
    /\ rl_n > Len(accepted["u1"]) + Len(accepted["u2"])
    /\ \E v \in Users \ {rl_op.user} : windows[v] # <<>>

(***************************************************************************)
(* The Layer-0 short circuit of DiagnoseSkill and ChatSkill                *)
(* (skills/builtin/diagnose.py, skills/builtin/chat.py).                   *)
(***************************************************************************)
SkillTask == "t1"      \* the task handle() runs in; t2 is a concurrent route() caller

LAYER0_FAULT_CODES == {"E001", "M001", "M002", "T001", "C001"}
ACTIONABLE_TYPES == {"procedure", "fault_code", "checklist", "troubleshooting"}

\* What a knowledge-base search may return, per atom: its atom_type, whether it
\* has steps or fixes, whether it carries a score (or similarity), that score in
\* hundredths, and whether reading it raises (an entry that is not a dict).
KbAtoms ==
    {[atom_type |-> "procedure", steps |-> TRUE, has_score |-> TRUE, score |-> 90, ok |-> TRUE],
     [atom_type |-> "procedure", steps |-> TRUE, has_score |-> TRUE, score |-> 85, ok |-> TRUE],
     [atom_type |-> "procedure", steps |-> TRUE, has_score |-> TRUE, score |-> 0, ok |-> TRUE],
     [atom_type |-> "procedure", steps |-> TRUE, has_score |-> FALSE, score |-> 0, ok |-> TRUE],
     [atom_type |-> "reference", steps |-> TRUE, has_score |-> TRUE, score |-> 90, ok |-> TRUE],
     [atom_type |-> "checklist", steps |-> FALSE, has_score |-> TRUE, score |-> 90, ok |-> TRUE],
     [atom_type |-> "procedure", steps |-> TRUE, has_score |-> TRUE, score |-> 90, ok |-> FALSE]}

KbAnswers == UNION {[1..n -> KbAtoms] : n \in 0..MaxAtoms}

\* The fault code DiagnoseSkill searches the knowledge base for.
SearchedFaults == {"E001", "P001", "OK"}

\* score = atom.get("score", atom.get("similarity", 0))
ScoreOf(a) == IF a.has_score THEN a.score ELSE 0

\* atom_type in the actionable types and (steps or fixes) and
\* (score > 0.85 if score else True).
Eligible(a) ==
    /\ a.atom_type \in ACTIONABLE_TYPES
    /\ a.steps
    /\ (IF ScoreOf(a) # 0 THEN ScoreOf(a) > 85 ELSE TRUE)

\* The atoms the loop reads before one raises.
ReadAtoms(atoms) ==
    IF \E i \in 1..Len(atoms) : ~atoms[i].ok
    THEN SubSeq(atoms, 1, (CHOOSE i \in 1..Len(atoms) :
                              ~atoms[i].ok /\ \A j \in 1..(i - 1) : atoms[j].ok) - 1)
    ELSE atoms

\* result["layer0_hit"] of _query_kb_with_sources / _search_kb_with_sources.
Layer0Hit(skill, fault, atoms) ==
    /\ skill = "diagnose" => fault \notin {"OK", "IDLE"} /\ fault \in LAYER0_FAULT_CODES
    /\ \E i \in 1..Len(ReadAtoms(atoms)) : Eligible(atoms[i])

\* Mutant of UsesRouter: the router is called whatever the search found.
UsesRouter_Always(hit) == TRUE

\* handle() goes on to context.llm.route unless layer0_hit returned first.
UsesRouter(hit) == ~hit

\* handle() from its entry to the await of the knowledge-base search, for a
\* DiagnoseSkill call that got tags and a ChatSkill call that searches.
HandleStart(skill) ==
    /\ sk.pc \in {"idle", "replied", "raised"}
    /\ rt[SkillTask].pc \in {"idle", "returned", "raised"}
    /\ handled < MaxSkillCalls
    /\ handled' = handled + 1
    /\ sk' = [IdleSkill EXCEPT !.pc = "kb", !.skill = skill, !.path = "kb",
                               !.base = started[SkillTask]]
    /\ UNCHANGED <<llmVars, gatewayVars, faultVars, historyVars, restVars, rateVars, photoVars, shellVars>>

\* handle() of a DiagnoseSkill call without tags (_kb_only_fallback) or of a
\* ChatSkill call whose search is skipped (no connector, or a query shorter
\* than five characters): nothing can hit, the router is called next.
HandleStartNoSearch(skill) ==
    /\ sk.pc \in {"idle", "replied", "raised"}
    /\ rt[SkillTask].pc \in {"idle", "returned", "raised"}
    /\ handled < MaxSkillCalls
    /\ handled' = handled + 1
    /\ sk' = [IdleSkill EXCEPT !.pc = "route", !.skill = skill,
                               !.path = IF skill = "diagnose" THEN "kb_only" ELSE "no_search",
                               !.base = started[SkillTask]]
    /\ UNCHANGED <<llmVars, gatewayVars, faultVars, historyVars, restVars, rateVars, photoVars, shellVars>>

\* The search returned: the Layer-0 reply, or on to the router.
KbReturns(fault, atoms) ==
    /\ sk.pc = "kb"
    /\ LET hit == Layer0Hit(sk.skill, fault, atoms)
       IN sk' = IF UsesRouter(hit)
                THEN [sk EXCEPT !.pc = "route", !.hit = hit]
                ELSE [sk EXCEPT !.pc = "replied", !.hit = hit, !.reply = "layer0"]
    /\ UNCHANGED <<llmVars, gatewayVars, faultVars, historyVars, restVars, rateVars, photoVars, shellVars, handled>>

\* response = await context.llm.route(Intent.DIAGNOSE / Intent.CHAT, ...).
SkillRoute ==
    /\ sk.pc = "route"
    /\ started[SkillTask] = sk.base
    /\ RouteStart(SkillTask, sk.skill, FALSE, NoProvider, FALSE)

\* Whether the route() call of the skill stands in a try whose except returns
\* a reply: in _kb_only_fallback and in DiagramSkill.handle; not in
\* ChatSkill.handle, the main path of DiagnoseSkill.handle, PhotoSkill.handle
\* or WorkOrderSkill.handle.
CatchesExhaustion(skill, path) == path = "kb_only" \/ skill = "diagram"

\* route() returned or raised: the reply with the model's text; the error
\* reply of the skill; or the exception leaves handle() for the except branch
\* of dispatch.
SkillRouteDone ==
    /\ sk.pc = "route"
    /\ started[SkillTask] = sk.base + 1
    /\ rt[SkillTask].pc \in {"returned", "raised"}
    /\ sk' = IF rt[SkillTask].pc = "returned"
             THEN [sk EXCEPT !.pc = "replied", !.reply = "llm"]
             ELSE IF CatchesExhaustion(sk.skill, sk.path)
                  THEN [sk EXCEPT !.pc = "replied", !.reply = "no_providers"]
                  ELSE [sk EXCEPT !.pc = "raised"]
    /\ UNCHANGED <<llmVars, gatewayVars, faultVars, historyVars, restVars, rateVars, photoVars, shellVars, handled>>

\* The route() call of the concurrent task.
OtherRoute == RouteStart("t2", "photo", TRUE, "openrouter", FALSE)

InitLayer0 == InitRouter

NextLayer0 ==
    \/ \E skill \in {"diagnose", "chat"} : HandleStart(skill)
    \/ \E skill \in {"diagnose", "chat"} : HandleStartNoSearch(skill)
    \/ \E fault \in SearchedFaults, atoms \in KbAnswers : KbReturns(fault, atoms)
    \/ SkillRoute
    \/ SkillRouteDone
    \/ OtherRoute
    \/ \E t \in Tasks : PreferReturn(t)
    \/ \E t \in Tasks : PreferRaise(t)
    \/ \E t \in Tasks, n \in TokenAmounts : CallReturn(t, n)
    \/ \E t \in Tasks : CallRaise(t)
    \/ \E d \in TimeSteps : Tick(d)

SpecLayer0 == InitLayer0 /\ [][NextLayer0]_vars

\* C17: a handle() call whose search gave a Layer-0 hit replies with the
\* knowledge-base answer without a route() call of its own, and none of its
\* steps changes provider health, budgets or any other state of the router.
C17_Layer0SkipsRouter ==
    /\ [](sk.hit /\ sk.pc \in {"replied", "raised"} =>
            /\ sk.pc = "replied"
            /\ sk.reply = "layer0"
            /\ started[SkillTask] = sk.base)
    /\ [](sk.hit => sk.pc \notin {"route"})
    /\ [][sk' # sk /\ (sk'.hit \/ sk'.pc = "kb") => UNCHANGED llmVars]_vars

\* A Layer-0 reply was given while a provider had already failed for the
\* concurrent caller, and an earlier handle() call had gone through the router.
C17_Witness ==
    /\ sk.pc = "replied"
    /\ sk.hit
    /\ sk.skill = "diagnose"
    /\ sk.base > 0
    /\ \E p \in ProviderNames : health[p].consecutive_failures > 0

(***************************************************************************)
(* PhotoSkill and its background enrichment (skills/builtin/photo.py).     *)
(***************************************************************************)
\* The messages PhotoSkill.handle is called with: a photo reaches it through
\* TelegramAdapter._on_photo, the one place that builds image attachments; a
\* /photo command or HTTP request arrives without one.
PhotoMessages ==
    {[channel |-> "telegram", user_id |-> u, image |-> TRUE] : u \in Users}
    \cup {[channel |-> "telegram", user_id |-> "u1", image |-> FALSE],
          [channel |-> "http_api", user_id |-> "api-user", image |-> FALSE]}

\* Mutant of CreatesTask: the task is created before the router is called.
CreatesTask_Early(at) == at = "start"

\* asyncio.create_task(_background_enrich(...)) stands after the await of
\* route() and before the return.
CreatesTask(at) == at = "returned"

\* The task handle() creates: _background_enrich(images[0], caption,
\* send_callback=send_cb, chat_id=message.user_id), not yet run.
NewTask(f) == [NoTask EXCEPT !.state = "created", !.chat_id = f.user_id, !.callback = send_cb]

\* Mutant of Notification: the notification goes to a fixed chat.
Notification_FixedChat(task) == OutboundMessage("telegram", "u1", "KB Enrichment")

\* notify_msg = OutboundMessage(channel=Channel.TELEGRAM, user_id=chat_id, ...)
Notification(task) == OutboundMessage("telegram", task.chat_id, "KB Enrichment")

\* handle() from its entry to the await of route(), or to the reply that no
\* image was found.
PhotoStart(m) ==
    /\ photo.pc \in {"idle", "replied", "raised"}
    /\ photos < MaxPhotos
    /\ photos' = photos + 1
    /\ LET f == [pc |-> IF m.image THEN "route" ELSE "replied", channel |-> m.channel,
                 user_id |-> m.user_id, image |-> m.image]
       IN /\ photo' = f
          /\ replies' = [replies EXCEPT ![photos + 1] =
                            [end |-> IF m.image THEN "none" ELSE "no_image",
                             channel |-> m.channel, user_id |-> m.user_id]]
          /\ enrich' = IF m.image /\ CreatesTask("start")
                       THEN [enrich EXCEPT ![photos + 1] = NewTask(f)] ELSE enrich
    /\ UNCHANGED <<llmVars, gatewayVars, faultVars, historyVars, restVars, rateVars, kbVars, shellVars,
                   send_cb, sent>>

\* route() returned: the task is created and the reply returned.
PhotoRouteReturns ==
    /\ photo.pc = "route"
    /\ photo' = [photo EXCEPT !.pc = "replied"]
    /\ replies' = [replies EXCEPT ![photos].end = "llm"]
    /\ enrich' = IF CreatesTask("returned")
                 THEN [enrich EXCEPT ![photos] = NewTask(photo)] ELSE enrich
    /\ UNCHANGED <<llmVars, gatewayVars, faultVars, historyVars, restVars, rateVars, kbVars, shellVars,
                   send_cb, photos, sent>>

\* route() raised: the exception leaves handle().
PhotoRouteRaises ==
    /\ photo.pc = "route"
    /\ photo' = [photo EXCEPT !.pc = "raised"]
    /\ replies' = [replies EXCEPT ![photos].end = "raised"]
    /\ UNCHANGED <<llmVars, gatewayVars, faultVars, historyVars, restVars, rateVars, kbVars, shellVars,
                   send_cb, photos, enrich, sent>>

\* The event loop runs the task up to its await of run_in_executor: the image
\* is written to a NamedTemporaryFile(delete=False).
EnrichStart(i) ==
    /\ enrich[i].state = "created"
    /\ enrich' = [enrich EXCEPT ![i].state = "running", ![i].tmp = "exists"]
    /\ UNCHANGED <<llmVars, gatewayVars, faultVars, historyVars, restVars, rateVars, kbVars, shellVars,
                   send_cb, photo, photos, replies, sent>>

\* enrich_from_photo returned, with or without a summary: the temporary file
\* is unlinked, the notification is built and handed to send_callback, or the
\* task is done.
EnrichReturns(i, has_summary) ==
    /\ enrich[i].state = "running"
    /\ enrich' = IF enrich[i].callback /\ has_summary /\ enrich[i].chat_id # ""
                 THEN [enrich EXCEPT ![i].state = "notifying", ![i].tmp = "deleted",
                                      ![i].notify = Notification(enrich[i])]
                 ELSE [enrich EXCEPT ![i].state = "done", ![i].tmp = "deleted"]
    /\ UNCHANGED <<llmVars, gatewayVars, faultVars, historyVars, restVars, rateVars, kbVars, shellVars,
                   send_cb, photo, photos, replies, sent>>

\* enrich_from_photo or send_callback raised: logged, the task ends; the
\* except branch unlinks nothing.
EnrichRaises(i) ==
    /\ enrich[i].state \in {"running", "notifying"}
    /\ enrich' = [enrich EXCEPT ![i].state = "failed"]
    /\ UNCHANGED <<llmVars, gatewayVars, faultVars, historyVars, restVars, rateVars, kbVars, shellVars,
                   send_cb, photo, photos, replies, sent>>

\* send_callback(notify_msg) returned.
NotifyReturns(i) ==
    /\ enrich[i].state = "notifying"
    /\ enrich' = [enrich EXCEPT ![i].state = "done"]
    /\ sent' = sent \cup {[call |-> i, msg |-> enrich[i].notify]}
    /\ UNCHANGED <<llmVars, gatewayVars, faultVars, historyVars, restVars, rateVars, kbVars, shellVars,
                   send_cb, photo, photos, replies>>

\* WiringEnrichSkill.handle up to its await of run_in_executor (the image in
\* a NamedTemporaryFile(delete=False)), or to its reply that no photo came.
WiringStart(image) ==
    /\ wenrich.pc \in {"idle", "replied"}
    /\ wenrich' = IF image THEN [pc |-> "running", tmp |-> "exists", reply |-> "none"]
                  ELSE [pc |-> "replied", tmp |-> "none", reply |-> "no_image"]
    /\ UNCHANGED <<llmVars, gatewayVars, faultVars, historyVars, rateVars, kbVars, photoVars,
                   shellVars, enrichVars, tg, kq, lateVars>>

\* enrich_from_photo returned (the summary is replied) or raised (the error is
\* replied); the finally clause unlinks the temporary file either way.
WiringDone(raised) ==
    /\ wenrich.pc = "running"
    /\ wenrich' = [pc |-> "replied", tmp |-> "deleted",
                   reply |-> IF raised THEN "error" ELSE "summary"]
    /\ UNCHANGED <<llmVars, gatewayVars, faultVars, historyVars, rateVars, kbVars, photoVars,
                   shellVars, enrichVars, tg, kq, lateVars>>

InitPhoto ==
    /\ LlmIdle(InitBudgets(0)) /\ GatewayIdle /\ FaultsIdle /\ HistoryIdle
    /\ RateIdle(DEFAULT_RATE_LIMIT) /\ KbIdle /\ ShellIdle({}, FALSE) /\ RestIdle
    /\ \E cb \in BOOLEAN : PhotoIdle(cb)

NextPhoto ==
    \/ \E m \in PhotoMessages : PhotoStart(m)
    \/ PhotoRouteReturns
    \/ PhotoRouteRaises
    \/ \E i \in 1..MaxPhotos : EnrichStart(i)
    \/ \E i \in 1..MaxPhotos, has_summary \in BOOLEAN : EnrichReturns(i, has_summary)
    \/ \E i \in 1..MaxPhotos : EnrichRaises(i)
    \/ \E i \in 1..MaxPhotos : NotifyReturns(i)
    \/ \E image \in BOOLEAN : WiringStart(image)
    \/ \E raised \in BOOLEAN : WiringDone(raised)

SpecPhoto == InitPhoto /\ [][NextPhoto]_vars

\* C18: an enrichment task exists only for a call whose route() returned and
\* whose reply has been returned with it, and every such call has its task;
\* so the reply never waits for a task, whatever the task goes on to do.
C18_ReplyBeforeEnrichment ==
    /\ \A i \in 1..MaxPhotos : enrich[i].state # "none" <=> replies[i].end = "llm"
    /\ photo.pc = "route" => enrich[photos].state = "none" /\ replies[photos].end = "none"
    /\ \A i \in 1..MaxPhotos : i > photos => enrich[i].state = "none" /\ replies[i] = NoReply

\* The reply of the first call was returned and a second call was handled
\* while the first call's task was still running.
C18_Witness ==
    /\ photos = 2
    /\ replies[1].end = "llm"
    /\ enrich[1].state = "running"
    /\ replies[2].end \in {"llm", "raised"}

UserIds == {101, 102}

\* message.user_id: str(user.id) from the Telegram adapter, req.user_id from
\* the HTTP API.
Senders == {ToString(uid) : uid \in UserIds} \cup {"api-user"}

\* admin_users = [str(uid) for uid in context.config.telegram_allowed_users]
admin_users == {ToString(uid) : uid \in allowed_users}

\* The message texts of the model, by what the skill reads in them: a /run
\* prefix, a $ prefix, an @host target and the rest.
ShellTexts ==
    {[run |-> FALSE, dollar |-> TRUE, host |-> "none", rest |-> "ls"],
     [run |-> TRUE, dollar |-> FALSE, host |-> "plc", rest |-> "ls"],
     [run |-> TRUE, dollar |-> FALSE, host |-> "none", rest |-> ""],
     [run |-> FALSE, dollar |-> TRUE, host |-> "travel", rest |-> ""]}

\* The command and the host handle() extracts from a text.
Command(t) == [text |-> t.rest, host |-> t.host]

\* The auth test of handle(): `admin_users and message.user_id not in admin_users`.
Denied(uid) == admin_users # {} /\ uid \notin admin_users

\* handle() from its entry to the await of jarvis.execute, or to one of the
\* replies returned before it.
ShellHandle(ch, uid, t) ==
    /\ shell.pc \in {"idle", "replied"}
    /\ shell.n < MaxShellCalls
    /\ LET c == Command(t)
           f == [IdleShell EXCEPT !.n = shell.n + 1, !.channel = ch, !.user_id = uid,
                                  !.text = c.text, !.host = c.host]
       IN IF Denied(uid)
          THEN /\ shell' = [f EXCEPT !.pc = "replied", !.reply = "restricted"]
               /\ executed' = executed
          ELSE IF c.text = ""
          THEN /\ shell' = [f EXCEPT !.pc = "replied", !.reply = "usage"]
               /\ executed' = executed
          ELSE IF ~jarvis
          THEN /\ shell' = [f EXCEPT !.pc = "replied", !.reply = "no_jarvis"]
               /\ executed' = executed
          ELSE /\ shell' = [f EXCEPT !.pc = "execute"]
               /\ executed' = Append(executed, [user_id |-> uid, text |-> c.text,
                                                host |-> c.host])
    /\ UNCHANGED <<llmVars, gatewayVars, faultVars, historyVars, restVars, rateVars, kbVars, photoVars,
                   allowed_users, jarvis>>

\* jarvis.execute returned: the reply carries the command's output.
ShellExecReturns ==
    /\ shell.pc = "execute"
    /\ shell' = [shell EXCEPT !.pc = "replied", !.reply = "output"]
    /\ UNCHANGED <<llmVars, gatewayVars, faultVars, historyVars, restVars, rateVars, kbVars, photoVars,
                   allowed_users, jarvis, executed>>

\* jarvis.execute raised: the reply carries the error.
ShellExecRaises ==
    /\ shell.pc = "execute"
    /\ shell' = [shell EXCEPT !.pc = "replied", !.reply = "error"]
    /\ UNCHANGED <<llmVars, gatewayVars, faultVars, historyVars, restVars, rateVars, kbVars, photoVars,
                   allowed_users, jarvis, executed>>

\* The channel a sender's messages arrive on.
ChannelOf(uid) == IF uid = "api-user" THEN "http_api" ELSE "telegram"

InitShell ==
    /\ LlmIdle(InitBudgets(0)) /\ GatewayIdle /\ FaultsIdle /\ HistoryIdle
    /\ RateIdle(DEFAULT_RATE_LIMIT) /\ KbIdle /\ PhotoIdle(FALSE) /\ RestIdle
    /\ \E al \in SUBSET UserIds, jv \in BOOLEAN : ShellIdle(al, jv)

NextShell ==
    \/ \E uid \in Senders, t \in ShellTexts : ShellHandle(ChannelOf(uid), uid, t)
    \/ ShellExecReturns
    \/ ShellExecRaises

SpecShell == InitShell /\ [][NextShell]_vars

\* C20: every command handed to the connector came from a sender on the
\* allow-list, and a sender that is not on the list is answered with the
\* denial.
C20_AllowListGate ==
    /\ \A i \in 1..Len(executed) : executed[i].user_id \in admin_users
    /\ shell.pc # "idle" /\ shell.user_id \notin admin_users => shell.reply = "restricted"

(***************************************************************************)
(* The KB enrichment pipeline, stages 2 to 4 (wiring/kb_enrichment.py).    *)
(***************************************************************************)
AtomIds == {1, 2}      \* atom_id of the rows of knowledge_atoms
Vendors == {"ABB", "ABB Ltd", "Siemens"}
PartNumbers == {"P1", "P2"}
WiringModels == {"w1", "w2"}   \* non-empty wiring dicts; "" is the empty dict

\* What vision may read off a photo; "" is a field it could not read.
VisionData ==
    [vendor : {"", "ABB", "Siemens"}, part_number : {""} \cup PartNumbers,
     wiring_diagram : {""} \cup WiringModels]

\* value ILIKE '%pattern%' on the names of the model.
ILike(pattern, value) ==
    pattern = "" \/ pattern = value \/ (pattern = "ABB" /\ value = "ABB Ltd")

\* A row as find_by_part selects it: with part_number and wiring_model.
PartRows ==
    [atom_id : AtomIds, vendor : Vendors, part_number : PartNumbers,
     wiring_model : {""} \cup WiringModels]

\* A row as search selects it: without the part_number and wiring_model
\* columns, so kb_rec.get() finds neither.
SearchRows ==
    [atom_id : AtomIds, vendor : Vendors, part_number : {""}, wiring_model : {""}]

\* _augment_from_kb(vision_data): nothing without a vendor and a part number or
\* without a connector; the row of the exact lookup; else the rows of the
\* full-text search, best first.
AugmentResults(v) ==
    IF v.vendor = "" /\ v.part_number = "" THEN {<<>>}
    ELSE {<<>>}
         \cup (IF v.vendor # "" /\ v.part_number # ""
               THEN {<<r>> : r \in {x \in PartRows : /\ ILike(v.vendor, x.vendor)
                                                    /\ ILike(v.part_number, x.part_number)}}
               ELSE {})
         \cup {q \in UNION {[1..n -> SearchRows] : n \in 1..MaxCandidates} :
                  \A i, j \in 1..Len(q) : i # j => q[i].atom_id # q[j].atom_id}

\* One pass of the merge loop of _synthesize over kb_rec.
MergeOne(acc, kb_rec) ==
    [existing_atom_id |-> kb_rec.atom_id,
     conflict |-> acc.conflict \/ (/\ kb_rec.wiring_model # ""
                                   /\ acc.wiring_model # ""
                                   /\ kb_rec.wiring_model # acc.wiring_model),
     vendor |-> IF acc.vendor = "" /\ kb_rec.vendor # "" THEN kb_rec.vendor ELSE acc.vendor,
     part_number |-> IF acc.part_number = "" /\ kb_rec.part_number # ""
                     THEN kb_rec.part_number ELSE acc.part_number,
     wiring_model |-> IF kb_rec.wiring_model # "" /\ acc.wiring_model = ""
                      THEN kb_rec.wiring_model ELSE acc.wiring_model,
     needs_review |-> FALSE]

RECURSIVE MergeFrom(_, _, _)
MergeFrom(acc, matches, i) ==
    IF i > Len(matches) THEN acc ELSE MergeFrom(MergeOne(acc, matches[i]), matches, i + 1)

\* _synthesize(vision_data, kb_matches, ...): the fields the claims speak of.
synthesize(v, matches) ==
    LET m == MergeFrom([NoAtom EXCEPT !.vendor = v.vendor, !.part_number = v.part_number,
                                      !.wiring_model = v.wiring_diagram], matches, 1)
    IN [m EXCEPT !.needs_review = m.conflict]

\* _upsert_atom(atom_data): the call it makes on the connector, if any.
upsert_atom(a, outcome) ==
    IF outcome = "no_kb" THEN <<>>
    ELSE IF a.existing_atom_id # NoAtomId
         THEN <<[op |-> "update_atom", atom_id |-> a.existing_atom_id,
                 conflict |-> a.conflict, ok |-> outcome = "ok"]>>
         ELSE <<[op |-> "insert_atom", atom_id |-> NoAtomId,
                 conflict |-> a.needs_review, ok |-> outcome = "ok"]>>

\* Stage 3 of enrich_from_photo.
Synthesize ==
    /\ en_pc = "augmented"
    /\ atom_data' = synthesize(vision, kb_matches)
    /\ en_pc' = "synthesized"
    /\ UNCHANGED <<llmVars, gatewayVars, faultVars, historyVars, rateVars, kbVars, photoVars,
                   shellVars, vision, kb_matches, kb_writes, tg, kq, wenrich, lateVars>>

\* Stage 4 of enrich_from_photo: the connector is missing (only if it was
\* missing for the search too), or its call succeeds or fails.
Upsert(outcome) ==
    /\ en_pc = "synthesized"
    /\ outcome = "no_kb" => kb_matches = <<>>
    /\ kb_writes' = kb_writes \o upsert_atom(atom_data, outcome)
    /\ en_pc' = "done"
    /\ UNCHANGED <<llmVars, gatewayVars, faultVars, historyVars, rateVars, kbVars, photoVars,
                   shellVars, vision, kb_matches, atom_data, tg, kq, wenrich, lateVars>>

InitEnrich ==
    /\ LlmIdle(InitBudgets(0)) /\ GatewayIdle /\ FaultsIdle /\ HistoryIdle
    /\ RateIdle(DEFAULT_RATE_LIMIT) /\ KbIdle /\ PhotoIdle(FALSE) /\ ShellIdle({}, FALSE)
    /\ vision \in VisionData
    /\ kb_matches \in AugmentResults(vision)
    /\ atom_data = NoAtom
    /\ kb_writes = <<>>
    /\ en_pc = "augmented"
    /\ SendIdle
    /\ QueryIdle
    /\ WiringIdle
    /\ LateIdle

NextEnrich ==
    \/ Synthesize
    \/ \E outcome \in {"no_kb", "ok", "failed"} : Upsert(outcome)

SpecEnrich == InitEnrich /\ [][NextEnrich]_vars

\* C21: once synthesized against candidates, the atom needs review whenever
\* a candidate's vendor or part number differs from the one vision read, or
\* its wiring model is not equal to the one vision read.
C21_MismatchNeedsReview ==
    en_pc # "augmented" =>
        \A i \in 1..Len(kb_matches) :
            (\/ /\ vision.vendor # "" /\ kb_matches[i].vendor # ""
                /\ vision.vendor # kb_matches[i].vendor
             \/ /\ vision.part_number # "" /\ kb_matches[i].part_number # ""
                /\ vision.part_number # kb_matches[i].part_number
             \/ vision.wiring_diagram # kb_matches[i].wiring_model)
            => atom_data.needs_review

\* C30: with candidates, the id carried to the upsert and updated is the first
\* candidate's; without candidates an atom is inserted and none is updated.
C30_UpsertsBestCandidate ==
    /\ en_pc # "augmented" /\ kb_matches # <<>> =>
          atom_data.existing_atom_id = kb_matches[1].atom_id
    /\ \A i \in 1..Len(kb_writes) :
          IF kb_matches = <<>>
          THEN kb_writes[i].op = "insert_atom"
          ELSE kb_writes[i].op = "update_atom" /\ kb_writes[i].atom_id = kb_matches[1].atom_id

(***************************************************************************)
(* route() with json_mode, as DiagramSkill, ProjectSkill and               *)
(* WorkOrderSkill call it.                                                 *)
(***************************************************************************)
\* The route() calls of this specification: structured-output calls of the
\* diagram intent, one of them with a preferred provider, and a plain call.
JsonRequests(t) ==
    IF t = "t1"
    THEN {[intent |-> "diagram", images |-> FALSE, prefer |-> NoProvider, json_mode |-> TRUE],
          [intent |-> "diagram", images |-> FALSE, prefer |-> "anthropic", json_mode |-> TRUE],
          [intent |-> "diagram", images |-> FALSE, prefer |-> NoProvider, json_mode |-> FALSE]}
    ELSE {[intent |-> "diagram", images |-> FALSE, prefer |-> NoProvider, json_mode |-> TRUE]}

\* create_app with the OpenRouter, Groq and Anthropic keys set.
InitJson ==
    /\ clock = 0
    /\ today = 0
    /\ ticks = 0
    /\ started = [t \in Tasks |-> 0]
    /\ configured = {"openrouter", "groq", "anthropic"}
    /\ available = configured
    /\ health = [p \in ProviderNames |-> ProviderHealth]
    /\ budgets = InitBudgets(0)
    /\ rt = [t \in Tasks |-> IdleFrame]
    /\ third_at = [p \in ProviderNames |-> -1]
    /\ budget_op = NoBudgetOp
    /\ summary_out = NoSummary
    /\ GatewayIdle
    /\ SkillsIdle

NextJson ==
    \/ \E t \in Tasks : \E r \in JsonRequests(t) :
          RouteStart(t, r.intent, r.images, r.prefer, r.json_mode)
    \/ \E t \in Tasks : PreferReturn(t)
    \/ \E t \in Tasks : PreferRaise(t)
    \/ \E t \in Tasks, n \in TokenAmounts : CallReturn(t, n)
    \/ \E t \in Tasks : CallRaise(t)
    \/ \E d \in TimeSteps : Tick(d)

SpecJson == InitJson /\ [][NextJson]_vars

\* C22: a route() call that asked for json_mode calls no candidate of its
\* candidate list that lacks JSON-mode support.
C22_JsonModeSkipsUnsupported ==
    \A t \in Tasks :
        rt[t].json_mode =>
            \A k \in DOMAIN rt[t].log :
                (/\ rt[t].log[k].via = "route"
                 /\ rt[t].log[k].verdict \in {"called", "ok", "failed"})
                => supports_json_mode(rt[t].log[k].prov)

\* C24: the step in which route() returns a response served by a budgeted
\* provider p charges p's budget one request and the response's tokens,
\* whether p was the preferred provider or a candidate.
C24_ServedIsCharged ==
    [][\A t \in Tasks :
          (CallSucceeds(t) /\ budgets[rt'[t].served].present) =>
              \E n \in TokenAmounts :
                  budgets'[rt'[t].served] =
                      ProviderBudget_record(budgets[rt'[t].served], n, today)]_vars

(***************************************************************************)
(* gateway/telegram.py: TelegramAdapter._send_long                         *)
(***************************************************************************)
MAX == 4096            \* MAX, Telegram's limit on the length of a message
MaxRuns == 3           \* runs of characters in a reply text
RunLengths == {1, 2, 4094, 4095, 4096, 4097}

\* The reply texts of the model.
Texts ==
    {EmptyText} \cup
    {x \in UNION {[1..n -> [nl : BOOLEAN, n : RunLengths]] : n \in 1..MaxRuns} :
        \A i \in 1..(Len(x) - 1) : x[i].nl # x[i + 1].nl}

\* len(text)
RECURSIVE TextLen(_)
TextLen(x) == IF x = <<>> THEN 0 ELSE x[1].n + TextLen(Tail(x))

\* The index of the first character of run k.
RunStart(x, k) == TextLen(SubSeq(x, 1, k - 1))

Least(a, b) == IF a <= b THEN a ELSE b

\* text.rfind("\n" * w, 0, end) for w = 1 or 2: the highest index at which w
\* line feeds start and end before index end; -1 if there is none.
RFind(x, w, end) ==
    LET found == {Least(RunStart(x, k) + x[k].n, end) - w :
                     k \in {j \in DOMAIN x :
                               /\ x[j].nl
                               /\ Least(RunStart(x, j) + x[j].n, end) - w >= RunStart(x, j)}}
    IN IF found = {} THEN -1 ELSE CHOOSE i \in found : \A j \in found : j <= i

\* text[:cut]
RECURSIVE TextPrefix(_, _)
TextPrefix(x, cut) ==
    IF cut <= 0 \/ x = <<>> THEN <<>>
    ELSE IF x[1].n <= cut THEN <<x[1]>> \o TextPrefix(Tail(x), cut - x[1].n)
    ELSE <<[x[1] EXCEPT !.n = cut]>>

\* text[cut:]
RECURSIVE TextSuffix(_, _)
TextSuffix(x, cut) ==
    IF cut <= 0 \/ x = <<>> THEN x
    ELSE IF x[1].n <= cut THEN TextSuffix(Tail(x), cut - x[1].n)
    ELSE <<[x[1] EXCEPT !.n = x[1].n - cut]>> \o Tail(x)

\* text.lstrip("\n")
lstrip(x) == IF x # <<>> /\ x[1].nl THEN Tail(x) ELSE x

\* Mutant of CutAt: a text without line feeds is cut one character late.
CutAt_PastLimit(x) ==
    IF RFind(x, 2, MAX) # -1 THEN RFind(x, 2, MAX)
    ELSE IF RFind(x, 1, MAX) # -1 THEN RFind(x, 1, MAX)
    ELSE MAX + 1

\* The cut of one pass of the loop: the last blank line before MAX, else the
\* last line feed before MAX, else MAX.
CutAt(x) ==
    IF RFind(x, 2, MAX) # -1 THEN RFind(x, 2, MAX)
    ELSE IF RFind(x, 1, MAX) # -1 THEN RFind(x, 1, MAX)
    ELSE MAX

\* The while loop of _send_long.
RECURSIVE ChunkLoop(_, _)
ChunkLoop(x, chunks) ==
    IF x = EmptyText THEN chunks
    ELSE IF TextLen(x) <= MAX THEN Append(chunks, x)
    ELSE ChunkLoop(lstrip(TextSuffix(x, CutAt(x))), Append(chunks, TextPrefix(x, CutAt(x))))

\* The messages _send_long sets out to send for text.
Chunks(x) == IF TextLen(x) <= MAX THEN <<x>> ELSE ChunkLoop(x, <<>>)

\* _send_long(update, text, parse_mode) up to its first reply_text.
SendLong(text) ==
    /\ tg.pc = "idle"
    /\ tg' = [pc |-> "sending", text |-> text, chunks |-> Chunks(text), sent |-> <<>>]
    /\ UNCHANGED <<llmVars, gatewayVars, faultVars, historyVars, rateVars, kbVars, photoVars,
                   shellVars, enrichVars, kq, wenrich, lateVars>>

\* reply_text of the next chunk returns, at once or, in the loop, on the retry
\* without parse_mode.
ChunkSent ==
    /\ tg.pc = "sending"
    /\ LET out == Append(tg.sent, tg.chunks[Len(tg.sent) + 1])
       IN tg' = [tg EXCEPT !.sent = out,
                           !.pc = IF Len(out) = Len(tg.chunks) THEN "done" ELSE "sending"]
    /\ UNCHANGED <<llmVars, gatewayVars, faultVars, historyVars, rateVars, kbVars, photoVars,
                   shellVars, enrichVars, kq, wenrich, lateVars>>

\* reply_text raises out of _send_long: the only attempt of the unchunked
\* path, or the retry of the loop.
ChunkRaises ==
    /\ tg.pc = "sending"
    /\ tg' = [tg EXCEPT !.pc = "raised"]
    /\ UNCHANGED <<llmVars, gatewayVars, faultVars, historyVars, rateVars, kbVars, photoVars,
                   shellVars, enrichVars, kq, wenrich, lateVars>>

InitSend ==
    /\ LlmIdle(InitBudgets(0)) /\ GatewayIdle /\ SkillsIdle

NextSend ==
    \/ \E text \in Texts : SendLong(text)
    \/ ChunkSent
    \/ ChunkRaises

SpecSend == InitSend /\ [][NextSend]_vars

\* C23 as stated: a text of at most 4096 characters is one chunk, a text of
\* 4097 characters is two chunks, and no chunk is longer than 4096.
C23_Original ==
    tg.pc # "idle" =>
        /\ TextLen(tg.text) <= MAX => Len(tg.chunks) = 1
        /\ TextLen(tg.text) = MAX + 1 => Len(tg.chunks) = 2
        /\ \A i \in DOMAIN tg.chunks : TextLen(tg.chunks[i]) <= MAX

\* The text has no line feed.
NoLineFeed(x) == \A k \in DOMAIN x : ~x[k].nl

\* C23, amended: a text of at most 4096 characters is one chunk, the text
\* itself; no chunk is longer than 4096; a text of 4097 characters is two
\* chunks when it has no line feed (4096 characters, then 1) and one or two
\* chunks otherwise; only chunks of the list are sent, in order.
C23_ChunkLimit ==
    tg.pc # "idle" =>
        /\ TextLen(tg.text) <= MAX => tg.chunks = <<tg.text>>
        /\ \A i \in DOMAIN tg.chunks : TextLen(tg.chunks[i]) <= MAX
        /\ TextLen(tg.text) = MAX + 1 =>
              /\ Len(tg.chunks) \in {1, 2}
              /\ NoLineFeed(tg.text) =>
                    /\ Len(tg.chunks) = 2
                    /\ TextLen(tg.chunks[1]) = MAX
                    /\ TextLen(tg.chunks[2]) = 1
        /\ Len(tg.sent) <= Len(tg.chunks)
        /\ \A i \in DOMAIN tg.sent : tg.sent[i] = tg.chunks[i]

\* C23 witness: a text of 4097 characters without line feed went out as two
\* messages.
C23_Witness ==
    /\ tg.pc = "done"
    /\ TextLen(tg.text) = MAX + 1
    /\ NoLineFeed(tg.text)
    /\ Len(tg.sent) = 2

(***************************************************************************)
(* The knowledge-base query of DiagnoseSkill and ChatSkill on its own      *)
(* (_query_kb_with_sources, _search_kb_with_sources).                      *)
(***************************************************************************)
\* The atoms the Layer-0 answer is built from: DiagnoseSkill joins the parts
\* of every eligible atom; ChatSkill overwrites layer0_answer at each eligible
\* atom, so the last one stays.
AnswerParts(skill, fault, atoms) ==
    LET read == 1..Len(ReadAtoms(atoms))
        hits == {i \in read : Eligible(atoms[i])}
    IN IF ~Layer0Hit(skill, fault, atoms) THEN {}
       ELSE IF skill = "diagnose" THEN hits
       ELSE {CHOOSE i \in hits : \A j \in hits : j <= i}

\* The query of a handle() call and the result dict it returns.
KbQuery(skill, fault, atoms) ==
    /\ kq.pc = "idle"
    /\ kq' = [pc |-> "queried", skill |-> skill, fault |-> fault, atoms |-> atoms,
              hit |-> Layer0Hit(skill, fault, atoms),
              parts |-> AnswerParts(skill, fault, atoms)]
    /\ UNCHANGED <<llmVars, gatewayVars, faultVars, historyVars, rateVars, kbVars, photoVars,
                   shellVars, enrichVars, tg, wenrich, lateVars>>

\* handle() after the query: the Layer-0 reply, or on to the router.
KbDecide ==
    /\ kq.pc = "queried"
    /\ kq' = [kq EXCEPT !.pc = IF UsesRouter(kq.hit) THEN "route" ELSE "layer0"]
    /\ UNCHANGED <<llmVars, gatewayVars, faultVars, historyVars, rateVars, kbVars, photoVars,
                   shellVars, enrichVars, tg, wenrich, lateVars>>

InitQuery == LlmIdle(InitBudgets(0)) /\ GatewayIdle /\ SkillsIdle

NextQuery ==
    \/ \E fault \in SearchedFaults, atoms \in KbAnswers : KbQuery("diagnose", fault, atoms)
    \/ \E atoms \in KbAnswers : KbQuery("chat", "OK", atoms)
    \/ KbDecide

SpecQuery == InitQuery /\ [][NextQuery]_vars

\* C25: DiagnoseSkill takes the Layer-0 path only for a fault of the Layer-0
\* set with an atom of an actionable type that has steps or fixes and either
\* no score or a score above 0.85; an atom carrying a score of 0.85 or less,
\* 0 included, does not count.
C25_DiagnoseLayer0Condition ==
    (kq.skill = "diagnose" /\ kq.pc = "layer0") =>
        /\ kq.fault \in LAYER0_FAULT_CODES
        /\ \E i \in DOMAIN kq.atoms :
              /\ kq.atoms[i].atom_type \in ACTIONABLE_TYPES
              /\ kq.atoms[i].steps
              /\ (~kq.atoms[i].has_score \/ kq.atoms[i].score > 85)

\* C26: ChatSkill answers through Layer 0 only when the first atom of the
\* search is actionable (has steps or fixes), and then from that atom alone.
C26_ChatTopRankedOnly ==
    (kq.skill = "chat" /\ kq.pc = "layer0") =>
        /\ kq.atoms # <<>>
        /\ kq.atoms[1].steps
        /\ kq.parts = {1}

(***************************************************************************)
(* The route() call of each built-in skill and what becomes of its         *)
(* RuntimeError("All LLM providers exhausted").                            *)
(***************************************************************************)
\* The handle() calls that reach context.llm.route: skill and branch.
RoutingCalls ==
    {[skill |-> "chat", path |-> "main"], [skill |-> "diagnose", path |-> "main"],
     [skill |-> "diagnose", path |-> "kb_only"], [skill |-> "photo", path |-> "main"],
     [skill |-> "work_order", path |-> "main"], [skill |-> "diagram", path |-> "main"]}

\* handle() up to its route() call, for a call that does not end before it.
SkillCall(skill, path) ==
    /\ sk.pc \in {"idle", "replied", "raised"}
    /\ rt[SkillTask].pc \in {"idle", "returned", "raised"}
    /\ handled < MaxSkillCalls
    /\ handled' = handled + 1
    /\ sk' = [IdleSkill EXCEPT !.pc = "route", !.skill = skill, !.path = path,
                               !.base = started[SkillTask]]
    /\ UNCHANGED <<llmVars, gatewayVars, faultVars, historyVars, restVars, rateVars, photoVars,
                   shellVars>>

\* await context.llm.route(intent, ...): PhotoSkill passes the images,
\* WorkOrderSkill and DiagramSkill ask for json_mode.
SkillRouteCall ==
    /\ sk.pc = "route"
    /\ started[SkillTask] = sk.base
    /\ RouteStart(SkillTask, sk.skill, sk.skill = "photo", NoProvider,
                  sk.skill \in {"work_order", "diagram"})

InitExhaust == InitRouter

NextExhaust ==
    \/ \E c \in RoutingCalls : SkillCall(c.skill, c.path)
    \/ SkillRouteCall
    \/ SkillRouteDone
    \/ \E n \in TokenAmounts : CallReturn(SkillTask, n)
    \/ CallRaise(SkillTask)
    \/ \E d \in TimeSteps : Tick(d)

SpecExhaust == InitExhaust /\ [][NextExhaust]_vars

\* C27: when route() raised for want of a provider, the skill that called it
\* replies itself; the exception never leaves handle() for the except branch
\* of dispatch.
C27_SkillCatchesExhaustion ==
    (sk.pc \in {"replied", "raised"} /\ started[SkillTask] = sk.base + 1
                                     /\ rt[SkillTask].pc = "raised")
        => (sk.pc = "replied" /\ sk.reply = "no_providers")

\* C28: when a background enrichment task of PhotoSkill or a
\* WiringEnrichSkill call has ended, the temporary image file it created has
\* been deleted.
C28_TempFilesDeleted ==
    /\ \A i \in 1..MaxPhotos :
          enrich[i].state \in {"done", "failed"} => enrich[i].tmp # "exists"
    /\ wenrich.pc = "replied" => wenrich.tmp # "exists"

(***************************************************************************)
(* dispatch under the registry of register_builtins(), for the intents of  *)
(* GistSkill and ProjectSkill.                                             *)
(***************************************************************************)
\* Messages whose intent is GIST or PROJECT, by classification of the text or
\* as set by the caller, and a plain chat message.
GistMessages ==
    {InboundMessage("telegram", uid, c.text, <<>>, c.intent) :
        uid \in {"u1", "u2"},
        c \in {[text |-> <<"gist">>, intent |-> "unknown"],
               [text |-> <<"hello">>, intent |-> "gist"],
               [text |-> <<"hello">>, intent |-> "project"],
               [text |-> <<"hello">>, intent |-> "unknown"]}}

\* create_app: registry.register_builtins() is the only registration.
InitRegistry ==
    /\ LlmIdle(InitBudgets(0))
    /\ inbound = InboundMessage("telegram", "u1", <<>>, <<>>, "unknown")
    /\ intent_out = "none"
    /\ registry = register_builtins
    /\ metrics = NoMetrics
    /\ dp = [t \in Tasks |-> IdleDispatch]
    /\ SkillsIdle

NextRegistry ==
    \/ \E t \in Tasks, m \in GistMessages : DispatchStart(t, m)
    \/ \E t \in Tasks : SkillReturns(t)
    \/ \E t \in Tasks : SkillRaises(t)
    \/ \E t \in Tasks : SkillCancelled(t)

SpecRegistry == InitRegistry /\ [][NextRegistry]_vars

\* C29: under the registry register_builtins() builds, a message of intent
\* GIST is handled by the gist skill and one of intent PROJECT by the project
\* skill.
C29_GistAndProjectRegistered ==
    \A t \in Tasks :
        (registry = register_builtins /\ dp[t].pc # "idle") =>
            /\ dp[t].msg.intent = "gist" => dp[t].skill = "gist"
            /\ dp[t].msg.intent = "project" => dp[t].skill = "project"

\* C40: check returns an (allowed, seconds_until_reset) pair for every user
\* and every max_per_hour >= 0, and with max_per_hour = 0 the pair rejects.
C40_CheckReturnsPair ==
    rl_op.op = "check" =>
        /\ ~rl_op.raised
        /\ rl_max = 0 => ~rl_op.allowed

\* C37: the chunker never sends an empty chunk: every chunk of a non-empty
\* text that went to reply_text has at least one character, also for a text
\* longer than the limit that begins with a line feed.
C37_NoEmptyChunk ==
    TextLen(tg.text) >= 1 =>
        \A i \in DOMAIN tg.sent : TextLen(tg.sent[i]) >= 1

C33_RequestsWithinLimit ==
    \A p \in ProviderNames :
        (budgets[p].present /\ budgets[p].daily_request_limit > 0)
            => budgets[p].requests_today <= budgets[p].daily_request_limit

\* One step of the router, seen from provider p's health: the counter changes
\* only by a failure (one up) or by a call of p that returned (to zero), and a
\* failure that is recorded when the counter already stands at the threshold
\* and the cooldown has run out opens the circuit for a further cooldown.
HealthStep(p) ==
    LET h == health[p]
        h2 == health'[p]
    IN /\ h2.consecutive_failures # h.consecutive_failures =>
            \/ h2.consecutive_failures = h.consecutive_failures + 1
            \/ /\ h2.consecutive_failures = 0
               /\ \E t \in Tasks : Callee(rt[t]) = p /\ rt'[t].pc = "returned"
       /\ (/\ h2.consecutive_failures = h.consecutive_failures + 1
           /\ h.consecutive_failures >= CIRCUIT_BREAKER_THRESHOLD
           /\ h.circuit_open_until <= clock)
            => h2.circuit_open_until = clock + CIRCUIT_BREAKER_COOLDOWN

\* C34: the expiry of the cooldown does not reset consecutive_failures; a
\* failure of the first call after the cooldown opens the circuit again for
\* 300 s on that single failure; only a successful call brings the counter
\* back to zero.
C34_ExpiryKeepsCounter == [][\A p \in ProviderNames : HealthStep(p)]_vars

\* C34 witness: p failed for the third time, its cooldown ran out, and the
\* failure of a later call took the counter past the threshold and opened the
\* circuit for 300 s from that failure.
C34_Witness ==
    \E p \in ProviderNames :
        /\ third_at[p] >= 0
        /\ health[p].consecutive_failures > CIRCUIT_BREAKER_THRESHOLD
        /\ health[p].last_failure >= third_at[p] + CIRCUIT_BREAKER_COOLDOWN
        /\ health[p].circuit_open_until = health[p].last_failure + CIRCUIT_BREAKER_COOLDOWN

\* C35: within one route() call each provider is called at most once, also
\* when prefer names one of the intent's candidates.
C35_CalledAtMostOnce ==
    \A t \in Tasks : \A i, j \in DOMAIN rt[t].log :
        (i < j /\ rt[t].log[i].verdict \in {"called", "ok", "failed"}
               /\ rt[t].log[j].verdict \in {"called", "ok", "failed"})
            => rt[t].log[i].prov # rt[t].log[j].prov

(***************************************************************************)
(* observability/health.py: aggregate_health over the connectors' probes.  *)
(***************************************************************************)
NoStatus == "absent"   \* health.get("status") returning None: the dict has no such key

\* The connectors dicts create_app may build from these four, in its order.
ConnectorLists ==
    {<<>>, <<"matrix">>, <<"jarvis">>, <<"plc">>, <<"matrix", "jarvis">>,
     <<"matrix", "plc">>, <<"jarvis", "plc">>, <<"matrix", "jarvis", "plc">>,
     <<"cmms">>, <<"jarvis", "cmms">>, <<"matrix", "jarvis", "cmms", "plc">>}

\* What health_check() of a connector may return. MatrixConnector and
\* CMMSConnector: a dict with status healthy or unhealthy. PLCConnector (with a host): connected or
\* disconnected. JarvisConnector: a dict keyed by host label, each value a dict
\* with status healthy or unhealthy, and no status key of its own.
Probes(name) ==
    CASE name \in {"matrix", "cmms"} -> {[status |-> st, hosts |-> {}] : st \in {"healthy", "unhealthy"}}
      [] name = "plc" -> {[status |-> st, hosts |-> {}] : st \in {"connected", "disconnected"}}
      [] name = "jarvis" ->
            {[status |-> NoStatus, hosts |-> h] :
                h \in {{[label |-> "h1", status |-> a]} : a \in {"healthy", "unhealthy"}}
                      \cup {{[label |-> "h1", status |-> a], [label |-> "h2", status |-> b]} :
                                a \in {"healthy", "unhealthy"},
                                b \in {"healthy", "unhealthy"}}}

\* health.get("status") in ("healthy", "connected", "disabled")
CountsHealthy(r) == r.status \in {"healthy", "connected", "disabled"}

\* aggregate_health(connectors) up to its first await, or to its return when
\* there is no connector.
HealthStart ==
    /\ hc.pc \in {"idle", "done"}
    /\ hc' = [hc EXCEPT !.pc = IF hc.connectors = <<>> THEN "done" ELSE "probing",
                        !.results = <<>>, !.all_healthy = TRUE,
                        !.status = IF hc.connectors = <<>> THEN "healthy" ELSE "none"]
    /\ UNCHANGED <<earlyVars, life, kb_flags, wp>>

\* The awaited health_check() returns r: one pass of the loop, and the return
\* after the last connector.
ProbeReturns(r) ==
    /\ hc.pc = "probing"
    /\ r \in Probes(hc.connectors[Len(hc.results) + 1])
    /\ LET all == hc.all_healthy /\ CountsHealthy(r)
           last == Len(hc.results) + 1 = Len(hc.connectors)
       IN hc' = [hc EXCEPT !.results = Append(hc.results, r),
                           !.all_healthy = all,
                           !.pc = IF last THEN "done" ELSE "probing",
                           !.status = IF last THEN (IF all THEN "healthy" ELSE "degraded")
                                      ELSE "none"]
    /\ UNCHANGED <<earlyVars, life, kb_flags, wp>>

InitHealth ==
    /\ LlmIdle(InitBudgets(0)) /\ GatewayIdle /\ FaultsIdle /\ HistoryIdle
    /\ RateIdle(DEFAULT_RATE_LIMIT) /\ KbIdle /\ PhotoIdle(FALSE) /\ ShellIdle({}, FALSE)
    /\ EnrichIdle /\ SendIdle /\ QueryIdle /\ WiringIdle
    /\ \E cs \in ConnectorLists :
          hc = [pc |-> "idle", connectors |-> cs, results |-> <<>>, all_healthy |-> TRUE,
                status |-> "none"]
    /\ LifeIdle /\ FlagsIdle /\ ProjectIdle

NextHealth ==
    \/ HealthStart
    \/ \E n \in {"matrix", "jarvis", "cmms", "plc"} : \E r \in Probes(n) : ProbeReturns(r)

SpecHealth == InitHealth /\ [][NextHealth]_vars

\* The probe result reports a healthy state: its status, or for the Jarvis
\* connector the status of every host.
ReportsHealthy(r) ==
    IF r.status = NoStatus
    THEN \A h \in r.hosts : h.status = "healthy"
    ELSE r.status \in {"healthy", "connected", "disabled"}

\* C31: the aggregate is healthy exactly when every connector's probe reports
\* a healthy state, and degraded otherwise; a Jarvis connector whose hosts are
\* all healthy does not degrade it.
C31_AggregateHealth ==
    hc.pc = "done" =>
        /\ hc.status \in {"healthy", "degraded"}
        /\ hc.status = "healthy" <=>
              \A i \in DOMAIN hc.results : ReportsHealthy(hc.results[i])

(***************************************************************************)
(* app.py: the startup and shutdown handlers of create_app.                 *)
(***************************************************************************)
\* The connector the loop over connectors.values() reaches after `done` of them.
NextConnector(done) == life.connectors[Cardinality(done) + 1]

\* startup(): one pass of the connect loop; an exception of connect() is
\* logged and the loop goes on.
ConnectReturns(raised) ==
    /\ life.pc = "created"
    /\ Cardinality(life.connected) < Len(life.connectors)
    /\ life' = [life EXCEPT !.connected = @ \cup {[name |-> NextConnector(life.connected),
                                                   ok |-> ~raised]}]
    /\ UNCHANGED <<earlyVars, hc, kb_flags, wp>>

\* startup() after the loop: the adapter is bound before start() is awaited,
\* and an exception of start() is logged.
StartupDone ==
    /\ life.pc = "created"
    /\ Cardinality(life.connected) = Len(life.connectors)
    /\ life' = [life EXCEPT !.pc = "running", !.adapter = life.telegram]
    /\ UNCHANGED <<earlyVars, hc, kb_flags, wp>>

\* Where shutdown() stands once the adapter is out of the way.
AfterStop == IF life.connectors = <<>> THEN "done" ELSE "disconnecting"

\* shutdown() up to its first await.
ShutdownStart ==
    /\ life.pc = "running"
    /\ life' = [life EXCEPT !.pc = IF life.adapter THEN "stopping" ELSE AfterStop]
    /\ UNCHANGED <<earlyVars, hc, kb_flags, wp>>

\* await telegram_adapter.stop() returns or raises; nothing catches it.
StopReturns(raised) ==
    /\ life.pc = "stopping"
    /\ life' = [life EXCEPT !.pc = IF raised THEN "raised" ELSE AfterStop]
    /\ UNCHANGED <<earlyVars, hc, kb_flags, wp>>

\* await conn.disconnect() returns or raises; nothing catches it.
\* PLCConnector.disconnect swallows every exception of its own.
DisconnectReturns(raised) ==
    /\ life.pc = "disconnecting"
    /\ raised => NextConnector(life.disconnected) # "plc"
    /\ LET called == life.disconnected \cup {NextConnector(life.disconnected)}
       IN life' = [life EXCEPT !.disconnected = called,
                               !.pc = IF raised THEN "raised"
                                      ELSE IF Cardinality(called) = Len(life.connectors)
                                           THEN "done" ELSE "disconnecting"]
    /\ UNCHANGED <<earlyVars, hc, kb_flags, wp>>

InitLife ==
    /\ LlmIdle(InitBudgets(0)) /\ GatewayIdle /\ FaultsIdle /\ HistoryIdle
    /\ RateIdle(DEFAULT_RATE_LIMIT) /\ KbIdle /\ PhotoIdle(FALSE) /\ ShellIdle({}, FALSE)
    /\ EnrichIdle /\ SendIdle /\ QueryIdle /\ WiringIdle
    /\ HealthIdle /\ FlagsIdle /\ ProjectIdle
    /\ \E cs \in ConnectorLists, t \in BOOLEAN :
          life = [pc |-> "created", telegram |-> t, adapter |-> FALSE, connectors |-> cs,
                  connected |-> {}, disconnected |-> {}]

NextLife ==
    \/ \E raised \in BOOLEAN : ConnectReturns(raised)
    \/ StartupDone
    \/ ShutdownStart
    \/ \E raised \in BOOLEAN : StopReturns(raised)
    \/ \E raised \in BOOLEAN : DisconnectReturns(raised)

SpecLife == InitLife /\ [][NextLife]_vars

\* C32: when shutdown has ended, by returning or by raising, disconnect() has
\* been called on every configured connector.
C32_ShutdownDisconnectsAll ==
    life.pc \in {"done", "raised"} =>
        \A i \in DOMAIN life.connectors : life.connectors[i] \in life.disconnected

(***************************************************************************)
(* wiring/kb_enrichment.py: SyncKB.update_atom on the rows of               *)
(* knowledge_atoms, as _upsert_atom calls it for an existing atom.          *)
(***************************************************************************)
\* The row after the UPDATE: wiring_model = COALESCE(%s, wiring_model), where
\* the parameter is NULL when the updates carry no wiring model (""), and
\* needs_review = %s with the conflict flag of this enrichment.
UpdatedRow(row, wiring_model, conflict) ==
    [wiring_model |-> IF wiring_model = "" THEN row.wiring_model ELSE wiring_model,
     needs_review |-> conflict]

\* _upsert_atom for atom_data with existing_atom_id = id: kb.update_atom with
\* conflict = atom_data.get("conflict", False); the statement commits (ok) or
\* raises and is rolled back.
UpdateAtom(id, wiring_model, conflict, ok) ==
    /\ kb_flags.n < MaxUpdates
    /\ kb_flags' = [rows |-> IF ok
                             THEN [kb_flags.rows EXCEPT
                                      ![id] = UpdatedRow(@, wiring_model, conflict)]
                             ELSE kb_flags.rows,
                    n |-> kb_flags.n + 1]
    /\ UNCHANGED <<earlyVars, hc, life, wp>>

InitReview ==
    /\ LlmIdle(InitBudgets(0)) /\ GatewayIdle /\ FaultsIdle /\ HistoryIdle
    /\ RateIdle(DEFAULT_RATE_LIMIT) /\ KbIdle /\ PhotoIdle(FALSE) /\ ShellIdle({}, FALSE)
    /\ EnrichIdle /\ SendIdle /\ QueryIdle /\ WiringIdle
    /\ HealthIdle /\ LifeIdle /\ ProjectIdle
    /\ \E w \in [AtomIds -> WiringModels \cup {""}] :
          kb_flags = [rows |-> [id \in AtomIds |->
                                   [wiring_model |-> w[id], needs_review |-> FALSE]],
                      n |-> 0]

NextReview ==
    \E id \in AtomIds, w \in WiringModels \cup {""}, conflict \in BOOLEAN, ok \in BOOLEAN :
        UpdateAtom(id, w, conflict, ok)

SpecReview == InitReview /\ [][NextReview]_vars

\* C38: needs_review is monotonic under enrichment: no update of an atom that
\* is flagged needs_review leaves it unflagged.
C38_NeedsReviewMonotonic ==
    [][\A id \in AtomIds :
          kb_flags.rows[id].needs_review => kb_flags'.rows[id].needs_review]_vars

(***************************************************************************)
(* wiring/models.py: WiringProject.add_connection and remove_connection.    *)
(***************************************************************************)
\* Terminal references "TAG.terminal" of the components K1 and Q1 of the
\* project, and one of a component the project does not have.
KnownRefs == {"K1.A1", "K1.A2", "Q1.1"}
Refs == KnownRefs \cup {"X9.1"}
Confidences == {5, 9}   \* confidence in tenths: 0.5 and 0.9
NoRef == ""             \* connected_to = None

\* The connection joins the unordered pair {a, b}.
Joins(conn, a, b) ==
    \/ conn.from_ref = a /\ conn.to_ref = b
    \/ conn.from_ref = b /\ conn.to_ref = a

\* _update_terminal_connection(ref, connected_to, ..., confidence, confirmed):
\* nothing for a component the project does not have; a terminal that is
\* missing is created unconnected and unconfirmed first.
update_terminal_connection(ts, ref, connected_to, confidence, confirmed) ==
    IF ref \notin KnownRefs THEN ts
    ELSE IF confidence >= (IF ts[ref].confirmed THEN 9 ELSE 0)
         THEN [ts EXCEPT ![ref] = [connected_to |-> connected_to,
                                   confirmed |-> ts[ref].confirmed \/ confirmed]]
         ELSE ts

\* add_connection: the first connection that joins the same pair is updated
\* when the new confidence is higher, and the terminals are left alone;
\* otherwise the connection is appended and both terminals are updated.
AddConnection(from_ref, to_ref, confidence, confirmed) ==
    /\ wp.n < MaxProjectOps
    /\ LET hits == {i \in DOMAIN wp.connections : Joins(wp.connections[i], from_ref, to_ref)}
       IN IF hits # {}
          THEN LET i == CHOOSE k \in hits : \A m \in hits : k <= m
                   conn == wp.connections[i]
               IN wp' = [wp EXCEPT !.n = @ + 1,
                                   !.connections[i] =
                                       IF confidence > conn.confidence
                                       THEN [conn EXCEPT !.confidence = confidence,
                                                         !.confirmed = confirmed \/ conn.confirmed]
                                       ELSE conn]
          ELSE LET conn == [from_ref |-> from_ref, to_ref |-> to_ref,
                            confidence |-> confidence, confirmed |-> confirmed]
                   t1 == update_terminal_connection(wp.terminals, from_ref, to_ref,
                                                    confidence, confirmed)
                   t2 == update_terminal_connection(t1, to_ref, from_ref,
                                                    confidence, confirmed)
               IN wp' = [terminals |-> t2, connections |-> Append(wp.connections, conn),
                         n |-> wp.n + 1]
    /\ UNCHANGED <<earlyVars, hc, life, kb_flags>>

\* The sequence without its i-th element: connections.pop(i).
Pop(s, i) == [k \in 1..(Len(s) - 1) |-> IF k < i THEN s[k] ELSE s[k + 1]]

\* remove_connection: the first connection that joins the pair is popped; the
\* terminals are not touched.
RemoveConnection(from_ref, to_ref) ==
    /\ wp.n < MaxProjectOps
    /\ LET hits == {i \in DOMAIN wp.connections : Joins(wp.connections[i], from_ref, to_ref)}
       IN wp' = [wp EXCEPT !.n = @ + 1,
                           !.connections =
                               IF hits # {}
                               THEN Pop(@, CHOOSE k \in hits : \A m \in hits : k <= m)
                               ELSE @]
    /\ UNCHANGED <<earlyVars, hc, life, kb_flags>>

InitProject ==
    /\ LlmIdle(InitBudgets(0)) /\ GatewayIdle /\ FaultsIdle /\ HistoryIdle
    /\ RateIdle(DEFAULT_RATE_LIMIT) /\ KbIdle /\ PhotoIdle(FALSE) /\ ShellIdle({}, FALSE)
    /\ EnrichIdle /\ SendIdle /\ QueryIdle /\ WiringIdle
    /\ HealthIdle /\ LifeIdle /\ FlagsIdle
    /\ wp = [terminals |-> [r \in KnownRefs |-> [connected_to |-> NoRef, confirmed |-> FALSE]],
             connections |-> <<>>, n |-> 0]

NextProject ==
    \/ \E a \in Refs : \E b \in Refs \ {a} : \E c \in Confidences, confirmed \in BOOLEAN :
          AddConnection(a, b, c, confirmed)
    \/ \E a \in Refs : \E b \in Refs \ {a} : RemoveConnection(a, b)

SpecProject == InitProject /\ [][NextProject]_vars

\* C39: the terminals and the connection list agree: every terminal whose
\* connected_to is set has a connection that joins it to that reference, and
\* no two connections join the same unordered pair of references.
C39_TerminalsMatchConnections ==
    /\ \A r \in DOMAIN wp.terminals :
          wp.terminals[r].connected_to # NoRef =>
              \E i \in DOMAIN wp.connections :
                  Joins(wp.connections[i], r, wp.terminals[r].connected_to)
    /\ \A i, j \in DOMAIN wp.connections :
          i # j => ~Joins(wp.connections[i], wp.connections[j].from_ref,
                          wp.connections[j].to_ref)

Init == InitRouter
Next == NextRouter
Spec == SpecRouter

====
